---- MODULE Spec2Model ----
(***************************************************************************)
(* Model of src/seo_research.py: the paginated search (search_listings),   *)
(* the detail fetch (get_listing_details), the normaliser                  *)
(* (extract_details) and the scenario runner (run_scenario).               *)
(*                                                                         *)
(* Python values are tagged records [t |-> <type>, v |-> <value>]; a       *)
(* Python str is the sequence of its code points; a dict is a function     *)
(* from its keys (TLA+ strings) to values.  An operator that models code   *)
(* that can raise returns Raised where the code raises.                    *)
(***************************************************************************)
EXTENDS Integers, Sequences, FiniteSets, TLC

(***************************************************************************)
(* Python values                                                           *)
(***************************************************************************)
PyNone == [t |-> "None"]
PyStr(s) == [t |-> "str", v |-> s]
PyInt(n) == [t |-> "int", v |-> n]
PyBool(b) == [t |-> "bool", v |-> b]
PyList(xs) == [t |-> "list", v |-> xs]
PyDict(f) == [t |-> "dict", v |-> f]
Raised == [t |-> "raise"]

EmptyDict == PyDict(<<>>)
EmptyList == PyList(<<>>)
EmptyStr == PyStr(<<>>)

\* bool(x)
Truthy(x) ==
    CASE x.t = "None" -> FALSE
      [] x.t = "bool" -> x.v
      [] x.t = "int" -> x.v # 0
      [] x.t = "str" -> Len(x.v) > 0
      [] x.t = "list" -> Len(x.v) > 0
      [] x.t = "dict" -> DOMAIN x.v # {}
      [] OTHER -> TRUE

\* d.get(k, default); AttributeError when d has no .get
PyGet(d, k, default) ==
    IF d.t # "dict" THEN Raised
    ELSE IF k \in DOMAIN d.v THEN d.v[k] ELSE default

\* a or b
PyOr(a, b) == IF Truthy(a) THEN a ELSE b

(***************************************************************************)
(* Code points                                                             *)
(***************************************************************************)
IsDigit(c) == c >= 48 /\ c <= 57
IsSpace(c) == c \in {9, 10, 11, 12, 13, 32}
Colon == 58
Dot == 46
LParen == 40
RParen == 41
Newline == 10

RECURSIVE DecimalDigits(_)
DecimalDigits(n) ==
    IF n < 10 THEN <<48 + n>> ELSE DecimalDigits(n \div 10) \o <<48 + (n % 10)>>

\* str(n) of an int
IntToStr(n) == IF n < 0 THEN <<45>> \o DecimalDigits(-n) ELSE DecimalDigits(n)

(***************************************************************************)
(* base64.b64decode(s).decode("utf-8")                                     *)
(***************************************************************************)
\* binascii's table: the sextet of an alphabet character, 64 for any other
B64Value(c) ==
    IF c >= 65 /\ c <= 90 THEN c - 65
    ELSE IF c >= 97 /\ c <= 122 THEN c - 71
    ELSE IF c >= 48 /\ c <= 57 THEN c + 4
    ELSE IF c = 43 THEN 62
    ELSE IF c = 47 THEN 63
    ELSE 64

B64Pad == 61

\* a2b_base64, non-strict: the loop over the characters from index i, with the
\* position in the quad, the bits carried over, the pads seen and the bytes out
RECURSIVE A2B(_, _, _, _, _, _)
A2B(s, i, quad_pos, leftchar, pads, out) ==
    IF i > Len(s)
    THEN IF quad_pos # 0 /\ quad_pos + pads < 4 THEN Raised ELSE PyList(out)
    ELSE LET c == s[i] IN
         IF c = B64Pad
         THEN IF quad_pos >= 2 /\ quad_pos + pads + 1 >= 4
              THEN PyList(out)
              ELSE A2B(s, i + 1, quad_pos, leftchar,
                       IF quad_pos >= 2 THEN pads + 1 ELSE pads, out)
         ELSE LET v == B64Value(c) IN
              IF v >= 64 THEN A2B(s, i + 1, quad_pos, leftchar, pads, out)
              ELSE CASE quad_pos = 0 -> A2B(s, i + 1, 1, v, 0, out)
                     [] quad_pos = 1 ->
                          A2B(s, i + 1, 2, v % 16, 0,
                              Append(out, leftchar * 4 + (v \div 16)))
                     [] quad_pos = 2 ->
                          A2B(s, i + 1, 3, v % 4, 0,
                              Append(out, leftchar * 16 + (v \div 4)))
                     [] quad_pos = 3 ->
                          A2B(s, i + 1, 0, 0, 0, Append(out, leftchar * 64 + v))

\* base64.b64decode(s) of a str: ValueError on a non-ASCII character, else a2b
B64Decode(s) ==
    IF \E i \in 1..Len(s) : s[i] > 127 THEN Raised ELSE A2B(s, 1, 0, 0, 0, <<>>)

IsCont(b) == b >= 128 /\ b <= 191

\* bytes.decode("utf-8") from index i: the code points, or Raised
RECURSIVE Utf8Decode(_, _, _)
Utf8Decode(b, i, out) ==
    IF i > Len(b) THEN PyStr(out)
    ELSE LET c == b[i] IN
         IF c < 128 THEN Utf8Decode(b, i + 1, Append(out, c))
         ELSE IF c >= 194 /\ c <= 223
         THEN IF i + 1 <= Len(b) /\ IsCont(b[i + 1])
              THEN Utf8Decode(b, i + 2,
                              Append(out, (c - 192) * 64 + (b[i + 1] - 128)))
              ELSE Raised
         ELSE IF c >= 224 /\ c <= 239
         THEN IF /\ i + 2 <= Len(b)
                 /\ IsCont(b[i + 1])
                 /\ IsCont(b[i + 2])
                 /\ (c = 224 => b[i + 1] >= 160)
                 /\ (c = 237 => b[i + 1] <= 159)
              THEN Utf8Decode(b, i + 3,
                              Append(out, (c - 224) * 4096 + (b[i + 1] - 128) * 64
                                          + (b[i + 2] - 128)))
              ELSE Raised
         ELSE IF c >= 240 /\ c <= 244
         THEN IF /\ i + 3 <= Len(b)
                 /\ IsCont(b[i + 1])
                 /\ IsCont(b[i + 2])
                 /\ IsCont(b[i + 3])
                 /\ (c = 240 => b[i + 1] >= 144)
                 /\ (c = 244 => b[i + 1] <= 143)
              THEN Utf8Decode(b, i + 4,
                              Append(out, (c - 240) * 262144 + (b[i + 1] - 128) * 4096
                                          + (b[i + 2] - 128) * 64 + (b[i + 3] - 128)))
              ELSE Raised
         ELSE Raised

\* the index of the first c in s at or after i, 0 when there is none
RECURSIVE Find(_, _, _)
Find(s, c, i) ==
    IF i > Len(s) THEN 0 ELSE IF s[i] = c THEN i ELSE Find(s, c, i + 1)

\* decoded.split(":")[0]
SplitFirst(decoded) == SubSeq(decoded, 1, Find(decoded, Colon, 1) - 1)

\* decoded.split(":")[1], for a decoded that holds a ":"
SplitSecond(decoded) ==
    LET a == Find(decoded, Colon, 1)
        b == Find(decoded, Colon, a + 1)
    IN  SubSeq(decoded, a + 1, (IF b = 0 THEN Len(decoded) ELSE b - 1))

\* lines 227-238: room_id of a raw result (PyNone when it stays None); Raised
\* when a .get outside the try raises
DecodeRoomId(result) ==
    LET dsl == PyGet(result, "demandStayListing", EmptyDict) IN
    IF dsl = Raised THEN Raised
    ELSE IF ~Truthy(dsl) THEN PyNone
    ELSE LET encoded_id == PyGet(dsl, "id", EmptyStr) IN
         IF encoded_id = Raised THEN Raised
         ELSE IF ~Truthy(encoded_id) THEN PyNone
         ELSE IF encoded_id.t # "str" THEN PyNone
         ELSE LET bytes == B64Decode(encoded_id.v) IN
              IF bytes = Raised THEN PyNone
              ELSE LET decoded == Utf8Decode(bytes.v, 1, <<>>) IN
                   IF decoded = Raised THEN PyNone
                   ELSE IF Find(decoded.v, Colon, 1) = 0 THEN PyNone
                   ELSE PyStr(SplitSecond(decoded.v))

(***************************************************************************)
(* search_listings: one raw result (lines 224-280)                         *)
(***************************************************************************)
MAX_PAGES == 15

\* "GUEST_FAVORITE"
GUEST_FAVORITE == PyStr(<<71, 85, 69, 83, 84, 95, 70, 65, 86, 79, 82, 73, 84, 69>>)

IsRatingChar(c) == IsDigit(c) \/ c = Dot

\* the index after the longest run of [\d.] (of \s, of \d) that starts at i
RECURSIVE SpanRating(_, _)
SpanRating(s, i) ==
    IF i <= Len(s) /\ IsRatingChar(s[i]) THEN SpanRating(s, i + 1) ELSE i

RECURSIVE SpanSpace(_, _)
SpanSpace(s, i) ==
    IF i <= Len(s) /\ IsSpace(s[i]) THEN SpanSpace(s, i + 1) ELSE i

RECURSIVE SpanDigits(_, _)
SpanDigits(s, i) ==
    IF i <= Len(s) /\ IsDigit(s[i]) THEN SpanDigits(s, i + 1) ELSE i

\* lines 251-260: (avg_rating, reviews_count) from avgRatingLocalized;
\* re.match raises TypeError on a truthy value that is not a str
ParseRating(rating_str) ==
    IF rating_str = Raised THEN Raised
    ELSE IF ~Truthy(rating_str)
    THEN [avg |-> EmptyStr, count |-> EmptyStr]
    ELSE IF rating_str.t # "str" THEN Raised
    ELSE LET s == rating_str.v
             a == SpanRating(s, 1)
             b == SpanSpace(s, a)
             c == SpanDigits(s, b + 1)
         IN  IF /\ a > 1
                /\ b <= Len(s)
                /\ s[b] = LParen
                /\ c > b + 1
                /\ c <= Len(s)
                /\ s[c] = RParen
             THEN \* r"([\d.]+)\s*\((\d+)\)"
                  [avg |-> PyStr(SubSeq(s, 1, a - 1)),
                   count |-> PyStr(SubSeq(s, b + 1, c - 1))]
             ELSE IF a > 1 /\ (a = Len(s) + 1 \/ (a = Len(s) /\ s[a] = Newline))
             THEN \* r"^[\d.]+$"
                  [avg |-> rating_str, count |-> EmptyStr]
             ELSE [avg |-> EmptyStr, count |-> EmptyStr]

\* lines 244-248: price
ExtractPrice(result) ==
    LET structured_price == PyGet(result, "structuredDisplayPrice", EmptyDict) IN
    IF structured_price = Raised THEN Raised
    ELSE IF ~Truthy(structured_price) THEN PyNone
    ELSE LET primary_line == PyGet(structured_price, "primaryLine", EmptyDict) IN
         IF primary_line = Raised \/ primary_line.t # "dict" THEN Raised
         ELSE PyOr(PyGet(primary_line, "discountedPrice", PyNone),
                   PyGet(primary_line, "price", PyNone))

\* lines 265-269: the loop over the badges from index i
RECURSIVE AnyGuestFavorite(_, _)
AnyGuestFavorite(badges, i) ==
    IF i > Len(badges) THEN PyBool(FALSE)
    ELSE LET logging_ctx == PyGet(badges[i], "loggingContext", EmptyDict) IN
         IF logging_ctx = Raised \/ logging_ctx.t # "dict" THEN Raised
         ELSE IF PyGet(logging_ctx, "badgeType", PyNone) = GUEST_FAVORITE
         THEN PyBool(TRUE)
         ELSE AnyGuestFavorite(badges, i + 1)

\* lines 263-269: is_guest_favorite_search; iterating a value that is no list
\* raises (None, a number) or hands .get a key or a character (dict, str)
GuestFavoriteSearch(result) ==
    LET badges == PyGet(result, "badges", EmptyList) IN
    IF badges = Raised THEN Raised
    ELSE IF badges.t = "list" THEN AnyGuestFavorite(badges.v, 1)
    ELSE IF badges.t \in {"str", "dict"} /\ ~Truthy(badges) THEN PyBool(FALSE)
    ELSE Raised

\* line 275: result.get("title", "") or result.get("subtitle", "")
ExtractTitle(result) ==
    PyOr(PyGet(result, "title", EmptyStr), PyGet(result, "subtitle", EmptyStr))

\* the counter left as it is
NextPositionStuck(global_position) == global_position

\* line 225: global_position += 1, before the result is looked at
NextPosition(global_position) == global_position + 1

\* a result kept whatever its identifier
DroppedNever(room_id) == FALSE

\* lines 240-241: if not room_id: continue
Dropped(room_id) == ~Truthy(room_id)

\* lines 227-280 for one raw result that was given position global_position:
\* Raised, PyNone when the result is dropped, else the record appended
ProcessResult(result, global_position, page_count) ==
    LET room_id == DecodeRoomId(result) IN
    IF room_id = Raised THEN Raised
    ELSE IF Dropped(room_id) THEN PyNone
    ELSE LET price == ExtractPrice(result)
             rating == ParseRating(PyGet(result, "avgRatingLocalized", EmptyStr))
             favorite == GuestFavoriteSearch(result)
         IN  IF price = Raised \/ rating = Raised \/ favorite = Raised THEN Raised
             ELSE PyDict([position |-> PyInt(global_position),
                          page |-> PyInt(page_count),
                          room_id |-> room_id,
                          title |-> ExtractTitle(result),
                          price |-> price,
                          avg_rating_search |-> rating.avg,
                          reviews_count_search |-> rating.count,
                          is_guest_favorite_search |-> favorite])

\* the loop with the counter incremented after the validation, for the
\* results kept only
RECURSIVE ProcessResultsCountingKept(_, _, _, _, _)
ProcessResultsCountingKept(search_results, i, global_position, page_count, page_listings) ==
    IF i > Len(search_results)
    THEN [raised |-> FALSE, page_listings |-> page_listings,
          global_position |-> global_position]
    ELSE LET pos == global_position + 1
             rec == ProcessResult(search_results[i], pos, page_count)
         IN  IF rec = Raised
             THEN [raised |-> TRUE, page_listings |-> <<>>,
                   global_position |-> global_position]
             ELSE IF rec = PyNone
             THEN ProcessResultsCountingKept(search_results, i + 1,
                                             global_position, page_count,
                                             page_listings)
             ELSE ProcessResultsCountingKept(search_results, i + 1, pos,
                                             page_count,
                                             Append(page_listings, rec))

\* lines 222-280: the loop over search_results from index i; raised tells
\* whether a result raised, in which case the page's records are lost
RECURSIVE ProcessResults(_, _, _, _, _)
ProcessResults(search_results, i, global_position, page_count, page_listings) ==
    IF i > Len(search_results)
    THEN [raised |-> FALSE, page_listings |-> page_listings,
          global_position |-> global_position]
    ELSE LET pos == NextPosition(global_position)
             rec == ProcessResult(search_results[i], pos, page_count)
         IN  IF rec = Raised
             THEN [raised |-> TRUE, page_listings |-> <<>>, global_position |-> pos]
             ELSE ProcessResults(search_results, i + 1, pos, page_count,
                                 IF rec = PyNone THEN page_listings
                                 ELSE Append(page_listings, rec))

(***************************************************************************)
(* search_listings: one page (lines 194-296)                               *)
(***************************************************************************)
\* a loop with no cap
LoopConditionTrue(page_count) == TRUE

\* line 194: while page_count < MAX_PAGES
LoopCondition(page_count) == page_count < MAX_PAGES

\* a request that names no page
NoCursorFilter(cursor) == <<>>

\* lines 140-142: the cursor filter of build_raw_params, <<>> when none
CursorFilter(cursor) == IF Truthy(cursor) THEN <<cursor>> ELSE <<>>

\* line 213: "errors" in data; TypeError on a value that is no container
HasErrors(data) ==
    IF data.t = "dict" THEN PyBool("errors" \in DOMAIN data.v)
    ELSE IF data.t = "list" THEN PyBool(FALSE)
    ELSE Raised

\* lines 218-220: results and search_results of a body
ResultsOf(data) ==
    PyGet(PyGet(PyGet(PyGet(data, "data", EmptyDict),
                      "presentation", EmptyDict),
                "staysSearch", EmptyDict),
          "results", EmptyDict)

\* a loop that is not left on a page without a record
NoPageListingsIgnored(page_listings) == FALSE

\* line 286: if not page_listings: break
NoPageListings(page_listings) == page_listings = <<>>

\* the cursor read from a key the response does not have
NextCursorLost(results) ==
    PyGet(PyGet(results, "paginationInfo", EmptyDict), "nextCursor", PyNone)

\* lines 290-291: cursor = pagination_info.get("nextPageCursor")
NextCursor(results) ==
    PyGet(PyGet(results, "paginationInfo", EmptyDict), "nextPageCursor", PyNone)

\* an except clause that returns an empty list
ExitEmptyHanded(how, all_listings, cursor, global_position) ==
    [how |-> how, all_listings |-> IF how = "except" THEN <<>> ELSE all_listings,
     cursor |-> cursor, global_position |-> global_position]

\* what one pass of the loop body leaves: the locals, and how: "again", the
\* loop goes on; "errors", "empty", "no cursor", the breaks of lines 215, 287
\* and 294; "except", the except clause of line 300
Exit(how, all_listings, cursor, global_position) ==
    [how |-> how, all_listings |-> all_listings, cursor |-> cursor,
     global_position |-> global_position]

\* lines 213-296: the loop body once the body of the response is decoded
HandleData(data, all_listings, cursor, page_count, global_position) ==
    LET errors == HasErrors(data)
        results == ResultsOf(data)
        search_results == PyGet(results, "searchResults", EmptyList)
    IN  IF errors = Raised
        THEN Exit("except", all_listings, cursor, global_position)
        ELSE IF errors.v
        THEN Exit("errors", all_listings, cursor, global_position)
        ELSE IF search_results = Raised
        THEN Exit("except", all_listings, cursor, global_position)
        ELSE IF search_results.t # "list"
        THEN \* iterating None or a number raises; an empty str or dict has
             \* no item; an item of a str or dict is a str, whose .get raises
             IF search_results.t \in {"str", "dict"} /\ ~Truthy(search_results)
             THEN Exit("empty", all_listings, cursor, global_position)
             ELSE Exit("except", all_listings, cursor,
                       IF search_results.t \in {"str", "dict"}
                       THEN NextPosition(global_position) ELSE global_position)
        ELSE LET page == ProcessResults(search_results.v, 1, global_position,
                                        page_count, <<>>)
                 extended == all_listings \o page.page_listings
                 next == NextCursor(results)
             IN  IF page.raised
                 THEN Exit("except", all_listings, cursor, page.global_position)
                 ELSE IF NoPageListings(page.page_listings)
                 THEN Exit("empty", extended, cursor, page.global_position)
                 ELSE IF next = Raised
                 THEN Exit("except", extended, cursor, page.global_position)
                 ELSE IF ~Truthy(next)
                 THEN Exit("no cursor", extended, next, page.global_position)
                 ELSE Exit("again", extended, next, page.global_position)

(***************************************************************************)
(* extract_details (lines 325-775)                                         *)
(***************************************************************************)
\* str.lower() on the code points below 256
LowerChar(c) ==
    IF (c >= 65 /\ c <= 90) \/ (c >= 192 /\ c <= 222 /\ c # 215) THEN c + 32 ELSE c

Lower(s) == [i \in 1..Len(s) |-> LowerChar(s[i])]

\* kw in s
Contains(s, kw) ==
    \E i \in 0..(Len(s) - Len(kw)) : SubSeq(s, i + 1, i + Len(kw)) = kw

\* sep.join(parts)
RECURSIVE Join(_, _)
Join(sep, parts) ==
    IF parts = <<>> THEN <<>>
    ELSE IF Len(parts) = 1 THEN parts[1]
    ELSE parts[1] \o sep \o Join(sep, Tail(parts))

\* str(x), for a str, an int, a bool, None, an empty list or dict
PyToStr(x) ==
    CASE x.t = "str" -> x.v
      [] x.t = "int" -> IntToStr(x.v)
      [] x.t = "bool" -> IF x.v THEN <<84, 114, 117, 101>> ELSE <<70, 97, 108, 115, 101>>
      [] x.t = "None" -> <<78, 111, 110, 101>>
      [] x.t = "list" /\ x.v = <<>> -> <<91, 93>>
      [] x.t = "dict" /\ DOMAIN x.v = {} -> <<123, 125>>

Str(x) == PyStr(PyToStr(x))

\* lines 327-467: the record extract_details starts from
DefaultResult ==
    [room_type |-> EmptyStr, bedrooms |-> EmptyStr, beds |-> EmptyStr,
     bathrooms |-> EmptyStr, guests_capacity |-> EmptyStr,
     rating_overall |-> EmptyStr, rating_accuracy |-> EmptyStr,
     rating_cleanliness |-> EmptyStr, rating_checkin |-> EmptyStr,
     rating_communication |-> EmptyStr, rating_location |-> EmptyStr,
     rating_value |-> EmptyStr, reviews_count |-> EmptyStr,
     host_id |-> EmptyStr, host_name |-> EmptyStr,
     is_superhost |-> PyBool(FALSE), is_guest_favorite |-> PyBool(FALSE),
     top_percent |-> EmptyStr, badges |-> EmptyStr,
     instant_book |-> PyBool(FALSE), cancellation_policy |-> EmptyStr,
     min_nights |-> EmptyStr, max_nights |-> EmptyStr,
     amenities_count |-> PyInt(0), has_wifi |-> PyBool(FALSE),
     has_kitchen |-> PyBool(FALSE), has_washer |-> PyBool(FALSE),
     has_dryer |-> PyBool(FALSE), has_air_conditioning |-> PyBool(FALSE),
     has_heating |-> PyBool(FALSE), has_tv |-> PyBool(FALSE),
     has_hair_dryer |-> PyBool(FALSE), has_iron |-> PyBool(FALSE),
     has_hangers |-> PyBool(FALSE), has_essentials |-> PyBool(FALSE),
     has_shampoo |-> PyBool(FALSE), has_hot_water |-> PyBool(FALSE),
     has_free_parking |-> PyBool(FALSE), has_paid_parking |-> PyBool(FALSE),
     has_street_parking |-> PyBool(FALSE), has_garage |-> PyBool(FALSE),
     has_ev_charger |-> PyBool(FALSE), has_pool |-> PyBool(FALSE),
     has_private_pool |-> PyBool(FALSE), has_shared_pool |-> PyBool(FALSE),
     has_hot_tub |-> PyBool(FALSE), has_gym |-> PyBool(FALSE),
     has_bbq_grill |-> PyBool(FALSE),
     has_outdoor_furniture |-> PyBool(FALSE),
     has_outdoor_dining |-> PyBool(FALSE),
     has_patio_balcony |-> PyBool(FALSE), has_garden |-> PyBool(FALSE),
     has_backyard |-> PyBool(FALSE), has_fire_pit |-> PyBool(FALSE),
     has_beach_access |-> PyBool(FALSE), has_lake_access |-> PyBool(FALSE),
     has_ski_in_out |-> PyBool(FALSE), has_city_view |-> PyBool(FALSE),
     has_mountain_view |-> PyBool(FALSE), has_ocean_view |-> PyBool(FALSE),
     has_sea_view |-> PyBool(FALSE), has_lake_view |-> PyBool(FALSE),
     has_garden_view |-> PyBool(FALSE), has_pool_view |-> PyBool(FALSE),
     has_coffee_maker |-> PyBool(FALSE),
     has_espresso_machine |-> PyBool(FALSE), has_oven |-> PyBool(FALSE),
     has_stove |-> PyBool(FALSE), has_microwave |-> PyBool(FALSE),
     has_refrigerator |-> PyBool(FALSE), has_freezer |-> PyBool(FALSE),
     has_dishwasher |-> PyBool(FALSE),
     has_dishes_silverware |-> PyBool(FALSE),
     has_cooking_basics |-> PyBool(FALSE), has_bathtub |-> PyBool(FALSE),
     has_shower |-> PyBool(FALSE), has_bidet |-> PyBool(FALSE),
     has_body_soap |-> PyBool(FALSE), has_conditioner |-> PyBool(FALSE),
     has_cleaning_products |-> PyBool(FALSE),
     has_bed_linens |-> PyBool(FALSE), has_extra_pillows |-> PyBool(FALSE),
     has_blackout_shades |-> PyBool(FALSE), has_safe |-> PyBool(FALSE),
     has_fireplace |-> PyBool(FALSE), has_ceiling_fan |-> PyBool(FALSE),
     has_workspace |-> PyBool(FALSE), has_desk |-> PyBool(FALSE),
     has_crib |-> PyBool(FALSE), has_high_chair |-> PyBool(FALSE),
     has_baby_safety_gates |-> PyBool(FALSE),
     has_children_books_toys |-> PyBool(FALSE),
     has_baby_bath |-> PyBool(FALSE), has_smoke_alarm |-> PyBool(FALSE),
     has_carbon_monoxide_alarm |-> PyBool(FALSE),
     has_fire_extinguisher |-> PyBool(FALSE),
     has_first_aid_kit |-> PyBool(FALSE),
     has_security_cameras |-> PyBool(FALSE),
     has_lock_on_door |-> PyBool(FALSE), has_self_checkin |-> PyBool(FALSE),
     has_lockbox |-> PyBool(FALSE), has_smart_lock |-> PyBool(FALSE),
     has_doorman |-> PyBool(FALSE), has_pets_allowed |-> PyBool(FALSE),
     has_step_free_entrance |-> PyBool(FALSE),
     has_wide_entrance |-> PyBool(FALSE),
     has_accessible_parking |-> PyBool(FALSE),
     has_grab_bars |-> PyBool(FALSE), has_elevator |-> PyBool(FALSE),
     has_netflix |-> PyBool(FALSE), has_streaming_service |-> PyBool(FALSE),
     has_cable_tv |-> PyBool(FALSE), has_game_console |-> PyBool(FALSE),
     has_books |-> PyBool(FALSE), has_board_games |-> PyBool(FALSE),
     has_breakfast |-> PyBool(FALSE), has_long_term_stays |-> PyBool(FALSE),
     has_luggage_dropoff |-> PyBool(FALSE),
     has_private_entrance |-> PyBool(FALSE), has_sauna |-> PyBool(FALSE),
     has_piano |-> PyBool(FALSE)]

\* lines 649-773: the keywords of each flag, any of which sets it
AmenityKeywords ==
    \* "wifi", "wi-fi", "internet", "wireless"
    [has_wifi |-> {<<119, 105, 102, 105>>, <<119, 105, 45, 102, 105>>,
         <<105, 110, 116, 101, 114, 110, 101, 116>>,
         <<119, 105, 114, 101, 108, 101, 115, 115>>},
     \* "kitchen"
     has_kitchen |-> {<<107, 105, 116, 99, 104, 101, 110>>},
     \* "washer", "washing machine", "laveuse", "lave-linge"
     has_washer |-> {<<119, 97, 115, 104, 101, 114>>,
         <<119, 97, 115, 104, 105, 110, 103, 32, 109, 97, 99, 104, 105, 110, 101>>,
         <<108, 97, 118, 101, 117, 115, 101>>,
         <<108, 97, 118, 101, 45, 108, 105, 110, 103, 101>>},
     \* "dryer", "s\xe8che-linge", "s\xe9choir"
     has_dryer |-> {<<100, 114, 121, 101, 114>>,
         <<115, 232, 99, 104, 101, 45, 108, 105, 110, 103, 101>>,
         <<115, 233, 99, 104, 111, 105, 114>>},
     \* "air conditioning", "air conditioner", "ac", "climatisation", "a/c"
     has_air_conditioning |-> {
         <<97, 105, 114, 32, 99, 111, 110, 100, 105, 116, 105, 111, 110, 105, 110, 103>>,
         <<97, 105, 114, 32, 99, 111, 110, 100, 105, 116, 105, 111, 110, 101, 114>>,
         <<97, 99>>,
         <<99, 108, 105, 109, 97, 116, 105, 115, 97, 116, 105, 111, 110>>,
         <<97, 47, 99>>},
     \* "heating", "heater", "chauffage", "central heating"
     has_heating |-> {<<104, 101, 97, 116, 105, 110, 103>>,
         <<104, 101, 97, 116, 101, 114>>,
         <<99, 104, 97, 117, 102, 102, 97, 103, 101>>,
         <<99, 101, 110, 116, 114, 97, 108, 32, 104, 101, 97, 116, 105, 110, 103>>},
     \* " tv", "television", "t\xe9l\xe9vision", "t\xe9l\xe9viseur", "hdtv"
     has_tv |-> {<<32, 116, 118>>,
         <<116, 101, 108, 101, 118, 105, 115, 105, 111, 110>>,
         <<116, 233, 108, 233, 118, 105, 115, 105, 111, 110>>,
         <<116, 233, 108, 233, 118, 105, 115, 101, 117, 114>>,
         <<104, 100, 116, 118>>},
     \* "hair dryer", "hairdryer", "s\xe8che-cheveux"
     has_hair_dryer |-> {<<104, 97, 105, 114, 32, 100, 114, 121, 101, 114>>,
         <<104, 97, 105, 114, 100, 114, 121, 101, 114>>,
         <<115, 232, 99, 104, 101, 45, 99, 104, 101, 118, 101, 117, 120>>},
     \* "iron", "fer \xe0 repasser"
     has_iron |-> {<<105, 114, 111, 110>>,
         <<102, 101, 114, 32, 224, 32, 114, 101, 112, 97, 115, 115, 101, 114>>},
     \* "hanger"
     has_hangers |-> {<<104, 97, 110, 103, 101, 114>>},
     \* "essential"
     has_essentials |-> {<<101, 115, 115, 101, 110, 116, 105, 97, 108>>},
     \* "shampoo"
     has_shampoo |-> {<<115, 104, 97, 109, 112, 111, 111>>},
     \* "hot water"
     has_hot_water |-> {<<104, 111, 116, 32, 119, 97, 116, 101, 114>>},
     \* "free parking", "parking gratuit", "free on-site parking", "free garage"
     has_free_parking |-> {
         <<102, 114, 101, 101, 32, 112, 97, 114, 107, 105, 110, 103>>,
         <<112, 97, 114, 107, 105, 110, 103, 32, 103, 114, 97, 116, 117, 105, 116>>,
         <<102, 114, 101, 101, 32, 111, 110, 45, 115, 105, 116, 101, 32, 112, 97, 114, 107, 105, 110, 103>>,
         <<102, 114, 101, 101, 32, 103, 97, 114, 97, 103, 101>>},
     \* "paid parking", "parking payant", "parking fee"
     has_paid_parking |-> {
         <<112, 97, 105, 100, 32, 112, 97, 114, 107, 105, 110, 103>>,
         <<112, 97, 114, 107, 105, 110, 103, 32, 112, 97, 121, 97, 110, 116>>,
         <<112, 97, 114, 107, 105, 110, 103, 32, 102, 101, 101>>},
     \* "street parking"
     has_street_parking |-> {
         <<115, 116, 114, 101, 101, 116, 32, 112, 97, 114, 107, 105, 110, 103>>},
     \* "garage"
     has_garage |-> {<<103, 97, 114, 97, 103, 101>>},
     \* "ev charger", "electric vehicle", "charging station", "borne de recharge"
     has_ev_charger |-> {<<101, 118, 32, 99, 104, 97, 114, 103, 101, 114>>,
         <<101, 108, 101, 99, 116, 114, 105, 99, 32, 118, 101, 104, 105, 99, 108, 101>>,
         <<99, 104, 97, 114, 103, 105, 110, 103, 32, 115, 116, 97, 116, 105, 111, 110>>,
         <<98, 111, 114, 110, 101, 32, 100, 101, 32, 114, 101, 99, 104, 97, 114, 103, 101>>},
     \* "pool"
     has_pool |-> {<<112, 111, 111, 108>>},
     \* "private pool", "piscine priv\xe9e"
     has_private_pool |-> {
         <<112, 114, 105, 118, 97, 116, 101, 32, 112, 111, 111, 108>>,
         <<112, 105, 115, 99, 105, 110, 101, 32, 112, 114, 105, 118, 233, 101>>},
     \* "shared pool", "piscine partag\xe9e", "communal pool"
     has_shared_pool |-> {
         <<115, 104, 97, 114, 101, 100, 32, 112, 111, 111, 108>>,
         <<112, 105, 115, 99, 105, 110, 101, 32, 112, 97, 114, 116, 97, 103, 233, 101>>,
         <<99, 111, 109, 109, 117, 110, 97, 108, 32, 112, 111, 111, 108>>},
     \* "hot tub", "jacuzzi", "spa", "whirlpool", "bain \xe0 remous"
     has_hot_tub |-> {<<104, 111, 116, 32, 116, 117, 98>>,
         <<106, 97, 99, 117, 122, 122, 105>>, <<115, 112, 97>>,
         <<119, 104, 105, 114, 108, 112, 111, 111, 108>>,
         <<98, 97, 105, 110, 32, 224, 32, 114, 101, 109, 111, 117, 115>>},
     \* "gym", "fitness", "exercise", "workout", "sport", "fitness center", "salle de sport"
     has_gym |-> {<<103, 121, 109>>, <<102, 105, 116, 110, 101, 115, 115>>,
         <<101, 120, 101, 114, 99, 105, 115, 101>>,
         <<119, 111, 114, 107, 111, 117, 116>>, <<115, 112, 111, 114, 116>>,
         <<102, 105, 116, 110, 101, 115, 115, 32, 99, 101, 110, 116, 101, 114>>,
         <<115, 97, 108, 108, 101, 32, 100, 101, 32, 115, 112, 111, 114, 116>>},
     \* "bbq", "grill", "barbecue", "barbeque"
     has_bbq_grill |-> {<<98, 98, 113>>, <<103, 114, 105, 108, 108>>,
         <<98, 97, 114, 98, 101, 99, 117, 101>>,
         <<98, 97, 114, 98, 101, 113, 117, 101>>},
     \* "outdoor furniture", "patio furniture", "garden furniture"
     has_outdoor_furniture |-> {
         <<111, 117, 116, 100, 111, 111, 114, 32, 102, 117, 114, 110, 105, 116, 117, 114, 101>>,
         <<112, 97, 116, 105, 111, 32, 102, 117, 114, 110, 105, 116, 117, 114, 101>>,
         <<103, 97, 114, 100, 101, 110, 32, 102, 117, 114, 110, 105, 116, 117, 114, 101>>},
     \* "outdoor dining", "al fresco", "d\xeener ext\xe9rieur"
     has_outdoor_dining |-> {
         <<111, 117, 116, 100, 111, 111, 114, 32, 100, 105, 110, 105, 110, 103>>,
         <<97, 108, 32, 102, 114, 101, 115, 99, 111>>,
         <<100, 238, 110, 101, 114, 32, 101, 120, 116, 233, 114, 105, 101, 117, 114>>},
     \* "patio", "balcony", "balcon", "terrace", "terrasse", "deck"
     has_patio_balcony |-> {<<112, 97, 116, 105, 111>>,
         <<98, 97, 108, 99, 111, 110, 121>>, <<98, 97, 108, 99, 111, 110>>,
         <<116, 101, 114, 114, 97, 99, 101>>,
         <<116, 101, 114, 114, 97, 115, 115, 101>>, <<100, 101, 99, 107>>},
     \* "garden", "jardin", "yard"
     has_garden |-> {<<103, 97, 114, 100, 101, 110>>,
         <<106, 97, 114, 100, 105, 110>>, <<121, 97, 114, 100>>},
     \* "backyard", "back yard", "arri\xe8re-cour"
     has_backyard |-> {<<98, 97, 99, 107, 121, 97, 114, 100>>,
         <<98, 97, 99, 107, 32, 121, 97, 114, 100>>,
         <<97, 114, 114, 105, 232, 114, 101, 45, 99, 111, 117, 114>>},
     \* "fire pit", "firepit", "foyer ext\xe9rieur"
     has_fire_pit |-> {<<102, 105, 114, 101, 32, 112, 105, 116>>,
         <<102, 105, 114, 101, 112, 105, 116>>,
         <<102, 111, 121, 101, 114, 32, 101, 120, 116, 233, 114, 105, 101, 117, 114>>},
     \* "beach access", "beachfront", "plage"
     has_beach_access |-> {
         <<98, 101, 97, 99, 104, 32, 97, 99, 99, 101, 115, 115>>,
         <<98, 101, 97, 99, 104, 102, 114, 111, 110, 116>>,
         <<112, 108, 97, 103, 101>>},
     \* "lake access", "lakefront", "waterfront"
     has_lake_access |-> {
         <<108, 97, 107, 101, 32, 97, 99, 99, 101, 115, 115>>,
         <<108, 97, 107, 101, 102, 114, 111, 110, 116>>,
         <<119, 97, 116, 101, 114, 102, 114, 111, 110, 116>>},
     \* "ski-in", "ski-out", "ski in", "ski out"
     has_ski_in_out |-> {<<115, 107, 105, 45, 105, 110>>,
         <<115, 107, 105, 45, 111, 117, 116>>,
         <<115, 107, 105, 32, 105, 110>>,
         <<115, 107, 105, 32, 111, 117, 116>>},
     \* "city view", "city skyline", "vue sur la ville", "urban view"
     has_city_view |-> {<<99, 105, 116, 121, 32, 118, 105, 101, 119>>,
         <<99, 105, 116, 121, 32, 115, 107, 121, 108, 105, 110, 101>>,
         <<118, 117, 101, 32, 115, 117, 114, 32, 108, 97, 32, 118, 105, 108, 108, 101>>,
         <<117, 114, 98, 97, 110, 32, 118, 105, 101, 119>>},
     \* "mountain view", "vue montagne"
     has_mountain_view |-> {
         <<109, 111, 117, 110, 116, 97, 105, 110, 32, 118, 105, 101, 119>>,
         <<118, 117, 101, 32, 109, 111, 110, 116, 97, 103, 110, 101>>},
     \* "ocean view", "vue oc\xe9an", "sea view"
     has_ocean_view |-> {<<111, 99, 101, 97, 110, 32, 118, 105, 101, 119>>,
         <<118, 117, 101, 32, 111, 99, 233, 97, 110>>,
         <<115, 101, 97, 32, 118, 105, 101, 119>>},
     \* "sea view", "vue mer"
     has_sea_view |-> {<<115, 101, 97, 32, 118, 105, 101, 119>>,
         <<118, 117, 101, 32, 109, 101, 114>>},
     \* "lake view", "vue lac"
     has_lake_view |-> {<<108, 97, 107, 101, 32, 118, 105, 101, 119>>,
         <<118, 117, 101, 32, 108, 97, 99>>},
     \* "garden view", "vue jardin"
     has_garden_view |-> {
         <<103, 97, 114, 100, 101, 110, 32, 118, 105, 101, 119>>,
         <<118, 117, 101, 32, 106, 97, 114, 100, 105, 110>>},
     \* "pool view", "vue piscine"
     has_pool_view |-> {<<112, 111, 111, 108, 32, 118, 105, 101, 119>>,
         <<118, 117, 101, 32, 112, 105, 115, 99, 105, 110, 101>>},
     \* "coffee maker", "coffee machine", "cafeti\xe8re", "nespresso", "keurig"
     has_coffee_maker |-> {
         <<99, 111, 102, 102, 101, 101, 32, 109, 97, 107, 101, 114>>,
         <<99, 111, 102, 102, 101, 101, 32, 109, 97, 99, 104, 105, 110, 101>>,
         <<99, 97, 102, 101, 116, 105, 232, 114, 101>>,
         <<110, 101, 115, 112, 114, 101, 115, 115, 111>>,
         <<107, 101, 117, 114, 105, 103>>},
     \* "espresso", "expresso"
     has_espresso_machine |-> {<<101, 115, 112, 114, 101, 115, 115, 111>>,
         <<101, 120, 112, 114, 101, 115, 115, 111>>},
     \* " oven", "four"
     has_oven |-> {<<32, 111, 118, 101, 110>>, <<102, 111, 117, 114>>},
     \* "stove", "cooktop", "plaque", "cuisini\xe8re", "hob"
     has_stove |-> {<<115, 116, 111, 118, 101>>,
         <<99, 111, 111, 107, 116, 111, 112>>,
         <<112, 108, 97, 113, 117, 101>>,
         <<99, 117, 105, 115, 105, 110, 105, 232, 114, 101>>,
         <<104, 111, 98>>},
     \* "microwave", "micro-onde"
     has_microwave |-> {<<109, 105, 99, 114, 111, 119, 97, 118, 101>>,
         <<109, 105, 99, 114, 111, 45, 111, 110, 100, 101>>},
     \* "refrigerator", "fridge", "r\xe9frig\xe9rateur", "frigo"
     has_refrigerator |-> {
         <<114, 101, 102, 114, 105, 103, 101, 114, 97, 116, 111, 114>>,
         <<102, 114, 105, 100, 103, 101>>,
         <<114, 233, 102, 114, 105, 103, 233, 114, 97, 116, 101, 117, 114>>,
         <<102, 114, 105, 103, 111>>},
     \* "freezer", "cong\xe9lateur"
     has_freezer |-> {<<102, 114, 101, 101, 122, 101, 114>>,
         <<99, 111, 110, 103, 233, 108, 97, 116, 101, 117, 114>>},
     \* "dishwasher", "lave-vaisselle"
     has_dishwasher |-> {<<100, 105, 115, 104, 119, 97, 115, 104, 101, 114>>,
         <<108, 97, 118, 101, 45, 118, 97, 105, 115, 115, 101, 108, 108, 101>>},
     \* "dishes", "silverware", "utensils", "cutlery", "vaisselle", "couverts"
     has_dishes_silverware |-> {<<100, 105, 115, 104, 101, 115>>,
         <<115, 105, 108, 118, 101, 114, 119, 97, 114, 101>>,
         <<117, 116, 101, 110, 115, 105, 108, 115>>,
         <<99, 117, 116, 108, 101, 114, 121>>,
         <<118, 97, 105, 115, 115, 101, 108, 108, 101>>,
         <<99, 111, 117, 118, 101, 114, 116, 115>>},
     \* "cooking basics", "pots", "pans", "oil", "salt"
     has_cooking_basics |-> {
         <<99, 111, 111, 107, 105, 110, 103, 32, 98, 97, 115, 105, 99, 115>>,
         <<112, 111, 116, 115>>, <<112, 97, 110, 115>>, <<111, 105, 108>>,
         <<115, 97, 108, 116>>},
     \* "bathtub", "bath tub", "tub", "baignoire"
     has_bathtub |-> {<<98, 97, 116, 104, 116, 117, 98>>,
         <<98, 97, 116, 104, 32, 116, 117, 98>>, <<116, 117, 98>>,
         <<98, 97, 105, 103, 110, 111, 105, 114, 101>>},
     \* "shower", "douche"
     has_shower |-> {<<115, 104, 111, 119, 101, 114>>,
         <<100, 111, 117, 99, 104, 101>>},
     \* "bidet"
     has_bidet |-> {<<98, 105, 100, 101, 116>>},
     \* "body soap", "soap", "savon"
     has_body_soap |-> {<<98, 111, 100, 121, 32, 115, 111, 97, 112>>,
         <<115, 111, 97, 112>>, <<115, 97, 118, 111, 110>>},
     \* "conditioner"
     has_conditioner |-> {
         <<99, 111, 110, 100, 105, 116, 105, 111, 110, 101, 114>>},
     \* "cleaning products", "cleaning supplies"
     has_cleaning_products |-> {
         <<99, 108, 101, 97, 110, 105, 110, 103, 32, 112, 114, 111, 100, 117, 99, 116, 115>>,
         <<99, 108, 101, 97, 110, 105, 110, 103, 32, 115, 117, 112, 112, 108, 105, 101, 115>>},
     \* "bed linen", "linens", "sheets", "draps"
     has_bed_linens |-> {<<98, 101, 100, 32, 108, 105, 110, 101, 110>>,
         <<108, 105, 110, 101, 110, 115>>, <<115, 104, 101, 101, 116, 115>>,
         <<100, 114, 97, 112, 115>>},
     \* "extra pillows", "pillow", "oreiller"
     has_extra_pillows |-> {
         <<101, 120, 116, 114, 97, 32, 112, 105, 108, 108, 111, 119, 115>>,
         <<112, 105, 108, 108, 111, 119>>,
         <<111, 114, 101, 105, 108, 108, 101, 114>>},
     \* "blackout", "room-darkening", "rideaux occultants"
     has_blackout_shades |-> {<<98, 108, 97, 99, 107, 111, 117, 116>>,
         <<114, 111, 111, 109, 45, 100, 97, 114, 107, 101, 110, 105, 110, 103>>,
         <<114, 105, 100, 101, 97, 117, 120, 32, 111, 99, 99, 117, 108, 116, 97, 110, 116, 115>>},
     \* " safe", "coffre-fort", "security box"
     has_safe |-> {<<32, 115, 97, 102, 101>>,
         <<99, 111, 102, 102, 114, 101, 45, 102, 111, 114, 116>>,
         <<115, 101, 99, 117, 114, 105, 116, 121, 32, 98, 111, 120>>},
     \* "fireplace", "chemin\xe9e", "indoor fireplace"
     has_fireplace |-> {<<102, 105, 114, 101, 112, 108, 97, 99, 101>>,
         <<99, 104, 101, 109, 105, 110, 233, 101>>,
         <<105, 110, 100, 111, 111, 114, 32, 102, 105, 114, 101, 112, 108, 97, 99, 101>>},
     \* "ceiling fan", "ventilateur"
     has_ceiling_fan |-> {
         <<99, 101, 105, 108, 105, 110, 103, 32, 102, 97, 110>>,
         <<118, 101, 110, 116, 105, 108, 97, 116, 101, 117, 114>>},
     \* "workspace", "work space", "dedicated workspace", "espace de travail", "laptop-friendly"
     has_workspace |-> {<<119, 111, 114, 107, 115, 112, 97, 99, 101>>,
         <<119, 111, 114, 107, 32, 115, 112, 97, 99, 101>>,
         <<100, 101, 100, 105, 99, 97, 116, 101, 100, 32, 119, 111, 114, 107, 115, 112, 97, 99, 101>>,
         <<101, 115, 112, 97, 99, 101, 32, 100, 101, 32, 116, 114, 97, 118, 97, 105, 108>>,
         <<108, 97, 112, 116, 111, 112, 45, 102, 114, 105, 101, 110, 100, 108, 121>>},
     \* "desk", "bureau", "office"
     has_desk |-> {<<100, 101, 115, 107>>, <<98, 117, 114, 101, 97, 117>>,
         <<111, 102, 102, 105, 99, 101>>},
     \* "crib", "cot", "berceau", "lit b\xe9b\xe9", "pack 'n play"
     has_crib |-> {<<99, 114, 105, 98>>, <<99, 111, 116>>,
         <<98, 101, 114, 99, 101, 97, 117>>,
         <<108, 105, 116, 32, 98, 233, 98, 233>>,
         <<112, 97, 99, 107, 32, 39, 110, 32, 112, 108, 97, 121>>},
     \* "high chair", "highchair", "chaise haute"
     has_high_chair |-> {<<104, 105, 103, 104, 32, 99, 104, 97, 105, 114>>,
         <<104, 105, 103, 104, 99, 104, 97, 105, 114>>,
         <<99, 104, 97, 105, 115, 101, 32, 104, 97, 117, 116, 101>>},
     \* "baby gate", "safety gate", "barri\xe8re"
     has_baby_safety_gates |-> {<<98, 97, 98, 121, 32, 103, 97, 116, 101>>,
         <<115, 97, 102, 101, 116, 121, 32, 103, 97, 116, 101>>,
         <<98, 97, 114, 114, 105, 232, 114, 101>>},
     \* "children's books", "toys", "jouets", "kids"
     has_children_books_toys |-> {
         <<99, 104, 105, 108, 100, 114, 101, 110, 39, 115, 32, 98, 111, 111, 107, 115>>,
         <<116, 111, 121, 115>>, <<106, 111, 117, 101, 116, 115>>,
         <<107, 105, 100, 115>>},
     \* "baby bath", "bain b\xe9b\xe9"
     has_baby_bath |-> {<<98, 97, 98, 121, 32, 98, 97, 116, 104>>,
         <<98, 97, 105, 110, 32, 98, 233, 98, 233>>},
     \* "smoke alarm", "smoke detector", "d\xe9tecteur de fum\xe9e"
     has_smoke_alarm |-> {
         <<115, 109, 111, 107, 101, 32, 97, 108, 97, 114, 109>>,
         <<115, 109, 111, 107, 101, 32, 100, 101, 116, 101, 99, 116, 111, 114>>,
         <<100, 233, 116, 101, 99, 116, 101, 117, 114, 32, 100, 101, 32, 102, 117, 109, 233, 101>>},
     \* "carbon monoxide", "co alarm", "co detector", "monoxyde de carbone"
     has_carbon_monoxide_alarm |-> {
         <<99, 97, 114, 98, 111, 110, 32, 109, 111, 110, 111, 120, 105, 100, 101>>,
         <<99, 111, 32, 97, 108, 97, 114, 109>>,
         <<99, 111, 32, 100, 101, 116, 101, 99, 116, 111, 114>>,
         <<109, 111, 110, 111, 120, 121, 100, 101, 32, 100, 101, 32, 99, 97, 114, 98, 111, 110, 101>>},
     \* "fire extinguisher", "extincteur"
     has_fire_extinguisher |-> {
         <<102, 105, 114, 101, 32, 101, 120, 116, 105, 110, 103, 117, 105, 115, 104, 101, 114>>,
         <<101, 120, 116, 105, 110, 99, 116, 101, 117, 114>>},
     \* "first aid", "premiers secours", "first-aid"
     has_first_aid_kit |-> {<<102, 105, 114, 115, 116, 32, 97, 105, 100>>,
         <<112, 114, 101, 109, 105, 101, 114, 115, 32, 115, 101, 99, 111, 117, 114, 115>>,
         <<102, 105, 114, 115, 116, 45, 97, 105, 100>>},
     \* "security camera", "camera", "surveillance", "cam\xe9ra"
     has_security_cameras |-> {
         <<115, 101, 99, 117, 114, 105, 116, 121, 32, 99, 97, 109, 101, 114, 97>>,
         <<99, 97, 109, 101, 114, 97>>,
         <<115, 117, 114, 118, 101, 105, 108, 108, 97, 110, 99, 101>>,
         <<99, 97, 109, 233, 114, 97>>},
     \* "lock on", "door lock", "verrou", "bedroom lock"
     has_lock_on_door |-> {<<108, 111, 99, 107, 32, 111, 110>>,
         <<100, 111, 111, 114, 32, 108, 111, 99, 107>>,
         <<118, 101, 114, 114, 111, 117>>,
         <<98, 101, 100, 114, 111, 111, 109, 32, 108, 111, 99, 107>>},
     \* "self check-in", "self-check-in", "self checkin", "arriv\xe9e autonome"
     has_self_checkin |-> {
         <<115, 101, 108, 102, 32, 99, 104, 101, 99, 107, 45, 105, 110>>,
         <<115, 101, 108, 102, 45, 99, 104, 101, 99, 107, 45, 105, 110>>,
         <<115, 101, 108, 102, 32, 99, 104, 101, 99, 107, 105, 110>>,
         <<97, 114, 114, 105, 118, 233, 101, 32, 97, 117, 116, 111, 110, 111, 109, 101>>},
     \* "lockbox", "lock box", "key box", "bo\xeete \xe0 cl\xe9s"
     has_lockbox |-> {<<108, 111, 99, 107, 98, 111, 120>>,
         <<108, 111, 99, 107, 32, 98, 111, 120>>,
         <<107, 101, 121, 32, 98, 111, 120>>,
         <<98, 111, 238, 116, 101, 32, 224, 32, 99, 108, 233, 115>>},
     \* "smart lock", "keypad", "code", "serrure connect\xe9e", "digital lock"
     has_smart_lock |-> {<<115, 109, 97, 114, 116, 32, 108, 111, 99, 107>>,
         <<107, 101, 121, 112, 97, 100>>, <<99, 111, 100, 101>>,
         <<115, 101, 114, 114, 117, 114, 101, 32, 99, 111, 110, 110, 101, 99, 116, 233, 101>>,
         <<100, 105, 103, 105, 116, 97, 108, 32, 108, 111, 99, 107>>},
     \* "doorman", "concierge", "portier", "building staff"
     has_doorman |-> {<<100, 111, 111, 114, 109, 97, 110>>,
         <<99, 111, 110, 99, 105, 101, 114, 103, 101>>,
         <<112, 111, 114, 116, 105, 101, 114>>,
         <<98, 117, 105, 108, 100, 105, 110, 103, 32, 115, 116, 97, 102, 102>>},
     \* "pets allowed", "pet-friendly", "pet friendly", "animaux accept\xe9s", "dog", "cat"
     has_pets_allowed |-> {
         <<112, 101, 116, 115, 32, 97, 108, 108, 111, 119, 101, 100>>,
         <<112, 101, 116, 45, 102, 114, 105, 101, 110, 100, 108, 121>>,
         <<112, 101, 116, 32, 102, 114, 105, 101, 110, 100, 108, 121>>,
         <<97, 110, 105, 109, 97, 117, 120, 32, 97, 99, 99, 101, 112, 116, 233, 115>>,
         <<100, 111, 103>>, <<99, 97, 116>>},
     \* "step-free", "step free", "no stairs", "sans escalier", "wheelchair"
     has_step_free_entrance |-> {
         <<115, 116, 101, 112, 45, 102, 114, 101, 101>>,
         <<115, 116, 101, 112, 32, 102, 114, 101, 101>>,
         <<110, 111, 32, 115, 116, 97, 105, 114, 115>>,
         <<115, 97, 110, 115, 32, 101, 115, 99, 97, 108, 105, 101, 114>>,
         <<119, 104, 101, 101, 108, 99, 104, 97, 105, 114>>},
     \* "wide entrance", "wide doorway", "entr\xe9e large"
     has_wide_entrance |-> {
         <<119, 105, 100, 101, 32, 101, 110, 116, 114, 97, 110, 99, 101>>,
         <<119, 105, 100, 101, 32, 100, 111, 111, 114, 119, 97, 121>>,
         <<101, 110, 116, 114, 233, 101, 32, 108, 97, 114, 103, 101>>},
     \* "accessible parking", "handicap parking", "disabled parking"
     has_accessible_parking |-> {
         <<97, 99, 99, 101, 115, 115, 105, 98, 108, 101, 32, 112, 97, 114, 107, 105, 110, 103>>,
         <<104, 97, 110, 100, 105, 99, 97, 112, 32, 112, 97, 114, 107, 105, 110, 103>>,
         <<100, 105, 115, 97, 98, 108, 101, 100, 32, 112, 97, 114, 107, 105, 110, 103>>},
     \* "grab bar", "grab bars", "barres d'appui"
     has_grab_bars |-> {<<103, 114, 97, 98, 32, 98, 97, 114>>,
         <<103, 114, 97, 98, 32, 98, 97, 114, 115>>,
         <<98, 97, 114, 114, 101, 115, 32, 100, 39, 97, 112, 112, 117, 105>>},
     \* "elevator", "lift", "ascenseur"
     has_elevator |-> {<<101, 108, 101, 118, 97, 116, 111, 114>>,
         <<108, 105, 102, 116>>,
         <<97, 115, 99, 101, 110, 115, 101, 117, 114>>},
     \* "netflix"
     has_netflix |-> {<<110, 101, 116, 102, 108, 105, 120>>},
     \* "streaming", "netflix", "amazon prime", "disney+", "hulu", "hbo", "apple tv"
     has_streaming_service |-> {
         <<115, 116, 114, 101, 97, 109, 105, 110, 103>>,
         <<110, 101, 116, 102, 108, 105, 120>>,
         <<97, 109, 97, 122, 111, 110, 32, 112, 114, 105, 109, 101>>,
         <<100, 105, 115, 110, 101, 121, 43>>, <<104, 117, 108, 117>>,
         <<104, 98, 111>>, <<97, 112, 112, 108, 101, 32, 116, 118>>},
     \* "cable", "c\xe2ble", "satellite"
     has_cable_tv |-> {<<99, 97, 98, 108, 101>>, <<99, 226, 98, 108, 101>>,
         <<115, 97, 116, 101, 108, 108, 105, 116, 101>>},
     \* "game console", "playstation", "xbox", "nintendo", "ps4", "ps5", "gaming"
     has_game_console |-> {
         <<103, 97, 109, 101, 32, 99, 111, 110, 115, 111, 108, 101>>,
         <<112, 108, 97, 121, 115, 116, 97, 116, 105, 111, 110>>,
         <<120, 98, 111, 120>>, <<110, 105, 110, 116, 101, 110, 100, 111>>,
         <<112, 115, 52>>, <<112, 115, 53>>, <<103, 97, 109, 105, 110, 103>>},
     \* "books", "library", "livres", "biblioth\xe8que", "reading"
     has_books |-> {<<98, 111, 111, 107, 115>>,
         <<108, 105, 98, 114, 97, 114, 121>>,
         <<108, 105, 118, 114, 101, 115>>,
         <<98, 105, 98, 108, 105, 111, 116, 104, 232, 113, 117, 101>>,
         <<114, 101, 97, 100, 105, 110, 103>>},
     \* "board game", "games", "jeux de soci\xe9t\xe9", "puzzles"
     has_board_games |-> {<<98, 111, 97, 114, 100, 32, 103, 97, 109, 101>>,
         <<103, 97, 109, 101, 115>>,
         <<106, 101, 117, 120, 32, 100, 101, 32, 115, 111, 99, 105, 233, 116, 233>>,
         <<112, 117, 122, 122, 108, 101, 115>>},
     \* "breakfast", "petit-d\xe9jeuner", "petit d\xe9jeuner"
     has_breakfast |-> {<<98, 114, 101, 97, 107, 102, 97, 115, 116>>,
         <<112, 101, 116, 105, 116, 45, 100, 233, 106, 101, 117, 110, 101, 114>>,
         <<112, 101, 116, 105, 116, 32, 100, 233, 106, 101, 117, 110, 101, 114>>},
     \* "long term", "monthly", "long-term", "28+ days"
     has_long_term_stays |-> {<<108, 111, 110, 103, 32, 116, 101, 114, 109>>,
         <<109, 111, 110, 116, 104, 108, 121>>,
         <<108, 111, 110, 103, 45, 116, 101, 114, 109>>,
         <<50, 56, 43, 32, 100, 97, 121, 115>>},
     \* "luggage dropoff", "luggage storage", "baggage"
     has_luggage_dropoff |-> {
         <<108, 117, 103, 103, 97, 103, 101, 32, 100, 114, 111, 112, 111, 102, 102>>,
         <<108, 117, 103, 103, 97, 103, 101, 32, 115, 116, 111, 114, 97, 103, 101>>,
         <<98, 97, 103, 103, 97, 103, 101>>},
     \* "private entrance", "entr\xe9e priv\xe9e", "separate entrance"
     has_private_entrance |-> {
         <<112, 114, 105, 118, 97, 116, 101, 32, 101, 110, 116, 114, 97, 110, 99, 101>>,
         <<101, 110, 116, 114, 233, 101, 32, 112, 114, 105, 118, 233, 101>>,
         <<115, 101, 112, 97, 114, 97, 116, 101, 32, 101, 110, 116, 114, 97, 110, 99, 101>>},
     \* "sauna"
     has_sauna |-> {<<115, 97, 117, 110, 97>>},
     \* "piano"
     has_piano |-> {<<112, 105, 97, 110, 111>>}]

\* "safety", which line 720 holds against has_safe
Safety == <<115, 97, 102, 101, 116, 121>>

\* lines 487-498: the loop over the items of sub_description from index i
RECURSIVE SubDescription(_, _, _)
SubDescription(items, i, result) ==
    IF i > Len(items) THEN result
    ELSE LET item == items[i] IN
         IF item.t # "str" THEN SubDescription(items, i + 1, result)
         ELSE LET item_lower == Lower(item.v)
                  n == SpanDigits(item.v, 1)
                  num == PyStr(SubSeq(item.v, 1, n - 1))
              IN  SubDescription(items, i + 1,
                      IF n = 1 THEN result
                      ELSE IF Contains(item_lower, <<98, 101, 100, 114, 111, 111, 109>>)
                      THEN [result EXCEPT !.bedrooms = num]
                      ELSE IF Contains(item_lower, <<98, 101, 100>>)
                      THEN [result EXCEPT !.beds = num]
                      ELSE IF Contains(item_lower, <<98, 97, 116, 104>>)
                      THEN [result EXCEPT !.bathrooms = num]
                      ELSE result)

\* lines 503-518: the keys of rating and the fields they fill
RatingFields ==
    <<<<"accuracy", "rating_accuracy">>, <<"cleanliness", "rating_cleanliness">>,
      <<"checking", "rating_checkin">>, <<"communication", "rating_communication">>,
      <<"location", "rating_location">>, <<"value", "rating_value">>,
      <<"guest_satisfaction", "rating_overall">>, <<"review_count", "reviews_count">>>>

RECURSIVE Ratings(_, _, _)
Ratings(rating_data, i, result) ==
    IF i > Len(RatingFields) THEN result
    ELSE LET value == PyGet(rating_data, RatingFields[i][1], PyNone) IN
         Ratings(rating_data, i + 1,
                 IF value # PyNone
                 THEN [result EXCEPT ![RatingFields[i][2]] = Str(value)]
                 ELSE result)

\* lines 539-550: the loop over highlights from index i; top is top_percent
RECURSIVE TopPercent(_, _, _)
TopPercent(highlights, i, top) ==
    IF i > Len(highlights) THEN top
    ELSE LET highlight == highlights[i] IN
         IF highlight.t # "dict" THEN TopPercent(highlights, i + 1, top)
         ELSE LET combined ==
                      Lower(PyToStr(PyGet(highlight, "title", EmptyStr)) \o <<32>>
                            \o PyToStr(PyGet(highlight, "subtitle", EmptyStr)))
              IN  TopPercent(highlights, i + 1,
                      IF Contains(combined, <<116, 111, 112, 32, 49, 37>>)
                      THEN PyStr(<<49>>)
                      ELSE IF Contains(combined, <<116, 111, 112, 32, 53, 37>>)
                      THEN PyStr(<<53>>)
                      ELSE IF Contains(combined, <<116, 111, 112, 32, 49, 48, 37>>)
                      THEN PyStr(<<49, 48>>)
                      ELSE top)

\* lines 553-561: badges
Badges(result) ==
    PyStr(Join(<<32, 124, 32>>,
               (IF result.is_superhost.v THEN <<<<83, 117, 112, 101, 114, 104, 111, 115, 116>>>> ELSE <<>>)
               \o (IF result.is_guest_favorite.v
                   THEN <<<<71, 117, 101, 115, 116, 32, 70, 97, 118, 111, 114, 105, 116, 101>>>> ELSE <<>>)
               \o (IF Truthy(result.top_percent)
                   THEN <<<<84, 111, 112, 32>> \o result.top_percent.v \o <<37>>>>
                   ELSE <<>>)))

\* lines 568-580: whether the nested host-profile path sets instant_book; an
\* exception on the way is passed over
NestedInstantBook(details) ==
    LET host_details == PyGet(details, "host_details", EmptyDict) IN
    IF host_details.t # "dict" THEN FALSE
    ELSE LET managed_listings ==
                 PyGet(PyGet(PyGet(PyGet(PyGet(host_details, "data", EmptyDict),
                                         "presentation", EmptyDict),
                                   "userProfileContainer", EmptyDict),
                             "userProfile", EmptyDict),
                       "managedListings", EmptyList)
         IN  IF managed_listings.t # "list" \/ ~Truthy(managed_listings) THEN FALSE
             ELSE Truthy(PyGet(managed_listings.v[1], "instantBookEnabled", PyNone))
                  /\ managed_listings.v[1].t = "dict"

\* lines 583-585: the three flatter fields
FlatInstantBook(details) ==
    Truthy(PyOr(PyOr(PyGet(details, "is_instant_bookable", PyNone),
                     PyGet(details, "instant_book", PyNone)),
                PyGet(details, "instant_bookable", PyNone)))

\* lines 567-585: instant_book
InstantBook(details) ==
    IF NestedInstantBook(details) THEN TRUE ELSE FlatInstantBook(details)

\* lines 588-596: cancellation_policy, EmptyStr when it is left alone
CancellationPolicy(details) ==
    LET cancel_policy == PyGet(details, "cancellation_policy", PyNone) IN
    IF ~Truthy(cancel_policy) THEN EmptyStr
    ELSE IF cancel_policy.t = "dict"
    THEN PyOr(PyOr(PyOr(PyGet(cancel_policy, "name", EmptyStr),
                        PyGet(cancel_policy, "policy_name", EmptyStr)),
                   PyGet(cancel_policy, "category", EmptyStr)),
              PyGet(cancel_policy, "type", EmptyStr))
    ELSE IF cancel_policy.t = "str" THEN cancel_policy
    ELSE EmptyStr

\* lines 599-611: minNights and maxNights of calendar[0].days[0], PyNone for
\* one that is absent and for both when an exception is passed over
NestedNights(details) ==
    LET none == [min |-> PyNone, max |-> PyNone]
        calendar == PyGet(details, "calendar", EmptyList)
    IN  IF calendar.t # "list" \/ ~Truthy(calendar) THEN none
        ELSE LET days == PyGet(calendar.v[1], "days", EmptyList) IN
             IF days.t # "list" \/ ~Truthy(days) THEN none
             ELSE IF days.v[1].t # "dict" THEN none
             ELSE [min |-> PyGet(days.v[1], "minNights", PyNone),
                   max |-> PyGet(days.v[1], "maxNights", PyNone)]

\* a bound of the stay from the flatter fields first
NightsFlatFirst(nested, details, first, second) ==
    IF Truthy(PyGet(details, first, PyNone))
    THEN Str(PyGet(details, first, PyNone))
    ELSE IF Truthy(PyGet(details, second, PyNone))
    THEN Str(PyGet(details, second, PyNone))
    ELSE IF nested # PyNone THEN Str(nested) ELSE EmptyStr

\* lines 606-607, 614-618 (606-609, 620-624): a bound of the stay from the
\* nested value, then from the first and the second flatter field
Nights(nested, details, first, second) ==
    LET from_nested == IF nested # PyNone THEN Str(nested) ELSE EmptyStr IN
    IF Truthy(from_nested) THEN from_nested
    ELSE IF Truthy(PyGet(details, first, PyNone))
    THEN Str(PyGet(details, first, PyNone))
    ELSE IF Truthy(PyGet(details, second, PyNone))
    THEN Str(PyGet(details, second, PyNone))
    ELSE from_nested

\* the loop of lines 636-641 with "if title:" for line 640
RECURSIVE CategoryTitlesOfAll(_, _, _)
CategoryTitlesOfAll(values, i, titles) ==
    IF i > Len(values) THEN [raised |-> FALSE, titles |-> titles]
    ELSE LET item == values[i] IN
         IF item.t # "dict" THEN CategoryTitlesOfAll(values, i + 1, titles)
         ELSE LET title == PyGet(item, "title", EmptyStr) IN
              IF Truthy(title)
              THEN IF title.t # "str"
                   THEN [raised |-> TRUE, titles |-> titles]
                   ELSE CategoryTitlesOfAll(values, i + 1,
                                            Append(titles, Lower(title.v)))
              ELSE CategoryTitlesOfAll(values, i + 1, titles)

\* lines 636-641: the loop over the values of a category from index i;
\* title.lower() raises on a title that is no str
RECURSIVE CategoryTitles(_, _, _)
CategoryTitles(values, i, titles) ==
    IF i > Len(values) THEN [raised |-> FALSE, titles |-> titles]
    ELSE LET item == values[i] IN
         IF item.t # "dict" THEN CategoryTitles(values, i + 1, titles)
         ELSE LET title == PyGet(item, "title", EmptyStr)
                  available == PyGet(item, "available", PyBool(TRUE))
              IN  IF Truthy(title) /\ Truthy(available)
                  THEN IF title.t # "str"
                       THEN [raised |-> TRUE, titles |-> titles]
                       ELSE CategoryTitles(values, i + 1,
                                           Append(titles, Lower(title.v)))
                  ELSE CategoryTitles(values, i + 1, titles)

\* lines 632-641: the loop over the categories from index i
RECURSIVE AmenityTitles(_, _, _)
AmenityTitles(amenities, i, titles) ==
    IF i > Len(amenities) THEN [raised |-> FALSE, titles |-> titles]
    ELSE LET category == amenities[i]
             values == PyGet(category, "values", EmptyList)
         IN  IF category.t # "dict" \/ values.t # "list"
             THEN AmenityTitles(amenities, i + 1, titles)
             ELSE LET more == CategoryTitles(values.v, 1, titles) IN
                  IF more.raised THEN more
                  ELSE AmenityTitles(amenities, i + 1, more.titles)

\* lines 627-641: all_amenity_titles, and whether the loop raised
AllAmenityTitles(details) ==
    LET amenities == PyGet(details, "amenities", EmptyList) IN
    IF amenities.t # "list" THEN [raised |-> FALSE, titles |-> <<>>]
    ELSE AmenityTitles(amenities.v, 1, <<>>)

\* every flag by its keywords alone, has_safe too
AmenityFlagByKeywords(flag, amenities_str) ==
    \E kw \in AmenityKeywords[flag] : Contains(amenities_str, kw)

\* lines 649-773: one flag from the blob
AmenityFlag(flag, amenities_str) ==
    /\ \E kw \in AmenityKeywords[flag] : Contains(amenities_str, kw)
    /\ (flag = "has_safe" => ~Contains(amenities_str, Safety))

\* lines 472-624: the fields that are no amenity field
Fields(details) ==
    LET room_type == PyGet(details, "room_type", PyNone)
        person_capacity == PyGet(details, "person_capacity", PyNone)
        sub_desc == PyGet(details, "sub_description", EmptyDict)
        items == PyGet(sub_desc, "items", EmptyList)
        rating_data == PyGet(details, "rating", PyNone)
        host_data == PyGet(details, "host", PyNone)
        highlights == PyGet(details, "highlights", EmptyList)
        nested == NestedNights(details)
        r1 == [DefaultResult EXCEPT
                  !.room_type = IF Truthy(room_type) THEN Str(room_type) ELSE @,
                  !.guests_capacity =
                      IF Truthy(person_capacity) THEN Str(person_capacity) ELSE @]
        r2 == IF Truthy(sub_desc) /\ sub_desc.t = "dict" /\ items.t = "list"
              THEN SubDescription(items.v, 1, r1) ELSE r1
        r3 == IF Truthy(rating_data) /\ rating_data.t = "dict"
              THEN Ratings(rating_data, 1, r2) ELSE r2
        host == Truthy(host_data) /\ host_data.t = "dict"
        r4 == [r3 EXCEPT
                  !.host_id = IF host /\ Truthy(PyGet(host_data, "id", PyNone))
                              THEN Str(PyGet(host_data, "id", PyNone)) ELSE @,
                  !.host_name = IF host /\ Truthy(PyGet(host_data, "name", PyNone))
                                THEN Str(PyGet(host_data, "name", PyNone)) ELSE @,
                  !.is_superhost =
                      PyBool(Truthy(PyGet(details, "is_super_host", PyNone))),
                  !.is_guest_favorite =
                      PyBool(Truthy(PyGet(details, "is_guest_favorite", PyNone))),
                  !.top_percent = IF highlights.t = "list"
                                  THEN TopPercent(highlights.v, 1, @) ELSE @]
    IN  [r4 EXCEPT
            !.badges = Badges(r4),
            !.instant_book = PyBool(InstantBook(details)),
            !.cancellation_policy = CancellationPolicy(details),
            !.min_nights = Nights(nested.min, details, "min_nights", "minimum_nights"),
            !.max_nights = Nights(nested.max, details, "max_nights", "maximum_nights")]

\* extract_details(details): the record, or Raised
ExtractDetails(details) ==
    IF ~Truthy(details) THEN PyDict(DefaultResult)
    ELSE IF details.t # "dict" THEN Raised
    ELSE LET all_amenity_titles == AllAmenityTitles(details)
             titles == all_amenity_titles.titles
         IN
         IF all_amenity_titles.raised THEN Raised
         ELSE LET amenities_str == Join(<<32>>, titles)
                  fields == Fields(details)
              IN  PyDict([k \in DOMAIN DefaultResult |->
                             IF k \in DOMAIN AmenityKeywords
                             THEN PyBool(AmenityFlag(k, amenities_str))
                             ELSE IF k = "amenities_count" THEN PyInt(Len(titles))
                             ELSE fields[k]])

(***************************************************************************)
(* The upstream: the replies the search endpoint may give                  *)
(***************************************************************************)
\* how many times in one run the upstream may depart from the regular reply
MaxDeviations == 2

\* the pages of a run on which it may: the later ones are regular; and the
\* pages the upstream holds in a run of run_scenario
MaxVariedPages == 2

\* id "YTo3" = base64("a:7"), title "A", price "9", rating "4.9 (12)", badge
RegularResult ==
    PyDict([demandStayListing |-> PyDict([id |-> PyStr(<<89, 84, 111, 51>>)]),
            title |-> PyStr(<<65>>),
            structuredDisplayPrice |->
                PyDict([primaryLine |-> PyDict([price |-> PyStr(<<57>>)])]),
            avgRatingLocalized |-> PyStr(<<52, 46, 57, 32, 40, 49, 50, 41>>),
            badges |-> PyList(<<PyDict([loggingContext |->
                                            PyDict([badgeType |-> GUEST_FAVORITE])])>>)])

\* id "YTo4" = base64("a:8"), subtitle "B", discounted price "7", rating "5.0"
OtherResult ==
    PyDict([demandStayListing |-> PyDict([id |-> PyStr(<<89, 84, 111, 52>>)]),
            subtitle |-> PyStr(<<66>>),
            structuredDisplayPrice |->
                PyDict([primaryLine |-> PyDict([discountedPrice |-> PyStr(<<55>>),
                                                price |-> PyStr(<<57>>)])]),
            avgRatingLocalized |-> PyStr(<<53, 46, 48>>)])

\* results the code drops: no demandStayListing; id "YWI=" = base64("ab"),
\* which has no separator
NoListingResult == PyDict([title |-> PyStr(<<65>>)])
NoSeparatorResult ==
    PyDict([demandStayListing |-> PyDict([id |-> PyStr(<<89, 87, 73, 61>>)]),
            title |-> PyStr(<<65>>)])

\* a result on which the code raises: null
NullResult == PyNone

RawResults ==
    {RegularResult, OtherResult, NoListingResult, NoSeparatorResult, NullResult}

\* "c1", "c2"
Cursor1 == PyStr(<<99, 49>>)
Cursor2 == PyStr(<<99, 50>>)

\* paginationInfo: with a cursor, with none (null, ""), null itself
Paginations ==
    {PyDict([nextPageCursor |-> c]) : c \in {Cursor1, Cursor2, PyNone, EmptyStr}}
        \cup {PyNone}

PageData(results, pagination) ==
    PyDict([data |-> PyDict([presentation |-> PyDict([staysSearch |->
        PyDict([results |-> PyDict([searchResults |-> results,
                                    paginationInfo |-> pagination])])])])])

Response(status_code, json) ==
    [t |-> "response", status_code |-> status_code, json |-> json]

\* the regular reply: one regular result and the cursor "c1"
RegularReply ==
    Response(200, PageData(PyList(<<RegularResult>>),
                           PyDict([nextPageCursor |-> Cursor1])))

\* replies that are no page: the request raises, status 503, a body that is
\* no JSON, an error list (with a message, empty), a list, searchResults null
FailureReplies ==
    {Raised, Response(503, Raised), Response(200, Raised),
     Response(200, PyDict([errors |->
                              PyList(<<PyDict([message |-> PyStr(<<120>>)])>>)])),
     Response(200, PyDict([errors |-> EmptyList])),
     Response(200, EmptyList),
     Response(200, PageData(PyNone, PyDict([nextPageCursor |-> Cursor1])))}

\* what a list of results costs: each result beyond the first, and each
\* result that is not the regular one
DeviationCost(results) ==
    (IF Len(results) > 1 THEN Len(results) - 1 ELSE 0)
        + Cardinality({i \in 1..Len(results) : results[i] # RegularResult})

\* the page replies of cost c, all and those that name no next page
PageReplies ==
    [c \in 0..MaxDeviations |->
        {Response(200, PageData(PyList(r), p)) :
            r \in {q \in UNION {[1..n -> RawResults] : n \in 0..(c + 1)} :
                      DeviationCost(q) = c},
            p \in Paginations}]

LastPageReplies ==
    [c \in 0..MaxDeviations |->
        {r \in PageReplies[c] :
            ~Truthy(NextCursor(ResultsOf(r.json)))}]

\* the replies to a search request: varied, whether the upstream may depart
\* from the regular reply on this page; budget, the departures left to it;
\* more, whether it holds more pages than this one
SearchReplies(varied, budget, more) ==
    (IF more THEN {RegularReply} ELSE {})
        \cup (IF varied
              THEN FailureReplies \cup
                   UNION {(IF more THEN PageReplies[c] ELSE LastPageReplies[c]) :
                             c \in 0..budget}
              ELSE {})

ReplyCost(r) ==
    IF r = Raised \/ r.json = Raised THEN 0
    ELSE LET search_results == PyGet(ResultsOf(r.json), "searchResults", EmptyList)
         IN  IF search_results = Raised \/ search_results.t # "list" THEN 0
             ELSE DeviationCost(search_results.v)

(***************************************************************************)
(* The upstream: the identifiers it may give                               *)
(***************************************************************************)
\* the bytes of the UTF-8 encoding of one code point
Utf8Bytes(c) ==
    IF c < 128 THEN <<c>>
    ELSE IF c < 2048 THEN <<192 + (c \div 64), 128 + (c % 64)>>
    ELSE IF c < 65536
    THEN <<224 + (c \div 4096), 128 + ((c \div 64) % 64), 128 + (c % 64)>>
    ELSE <<240 + (c \div 262144), 128 + ((c \div 4096) % 64),
           128 + ((c \div 64) % 64), 128 + (c % 64)>>

\* str.encode("utf-8")
RECURSIVE Utf8Encode(_)
Utf8Encode(s) ==
    IF s = <<>> THEN <<>> ELSE Utf8Bytes(Head(s)) \o Utf8Encode(Tail(s))

\* the character of a sextet, the inverse of B64Value
B64Char(v) ==
    IF v < 26 THEN 65 + v
    ELSE IF v < 52 THEN 71 + v
    ELSE IF v < 62 THEN v - 4
    ELSE IF v = 62 THEN 43
    ELSE 47

\* base64.b64encode(b), as a str
RECURSIVE B64Encode(_)
B64Encode(b) ==
    IF b = <<>> THEN <<>>
    ELSE IF Len(b) = 1
    THEN <<B64Char(b[1] \div 4), B64Char((b[1] % 4) * 16), B64Pad, B64Pad>>
    ELSE IF Len(b) = 2
    THEN <<B64Char(b[1] \div 4), B64Char((b[1] % 4) * 16 + (b[2] \div 16)),
           B64Char((b[2] % 16) * 4), B64Pad>>
    ELSE <<B64Char(b[1] \div 4), B64Char((b[1] % 4) * 16 + (b[2] \div 16)),
           B64Char((b[2] % 16) * 4 + (b[3] \div 64)), B64Char(b[3] % 64)>>
             \o B64Encode(SubSeq(b, 4, Len(b)))

\* the identifier of the composite key "<namespace>:<listing_id>", which
\* lines 234-236 decode and split
EncodeId(namespace, listing_id) ==
    B64Encode(Utf8Encode(namespace \o <<Colon>> \o listing_id))

\* namespaces: "StayListing", "a", "", "\u00e9"
Namespaces == {<<83, 116, 97, 121, 76, 105, 115, 116, 105, 110, 103>>, <<97>>, <<>>, <<233>>}

\* listing ids: "7", "78", "12345", "1234567890123456789", "\u00e97",
\* "\u20ac", "\U0001f600", "1:2", ""
ListingIds ==
    {<<55>>, <<55, 56>>, <<49, 50, 51, 52, 53>>,
     <<49, 50, 51, 52, 53, 54, 55, 56, 57, 48, 49, 50, 51, 52, 53, 54, 55, 56, 57>>,
     <<233, 55>>, <<8364>>, <<128512>>, <<49, 58, 50>>, <<>>}

\* what the upstream may give for an id besides the encoding of a key:
\* nothing (null, ""), a number, "!!!", "Y" (a lone character), "YTo3YQ"
\* (padding missing), "/w==" (the byte 0xFF), "YWI=" ("ab"), "w6k="
\* ("\u00e9"), "\u00e9", and "YTo3" ("a:7") with a character that is none
\* of base64 after it, a space in it, a pad after it
OtherIds ==
    {PyNone, EmptyStr, PyInt(5), PyStr(<<33, 33, 33>>), PyStr(<<89>>),
     PyStr(<<89, 84, 111, 51, 89, 81>>), PyStr(<<47, 119, 61, 61>>), PyStr(<<89, 87, 73, 61>>),
     PyStr(<<119, 54, 107, 61>>), PyStr(<<233>>), PyStr(<<89, 84, 111, 51, 33>>),
     PyStr(<<89, 84, 32, 111, 51>>), PyStr(<<89, 84, 111, 51, 61>>)}

Ids ==
    {PyStr(EncodeId(namespace, listing_id)) :
        namespace \in Namespaces, listing_id \in ListingIds} \cup OtherIds

\* a raw result of the id encoded_id and nothing else
IdResult(encoded_id) ==
    PyDict([demandStayListing |-> PyDict([id |-> encoded_id])])

\* the pages of such a result and the regular one, with no next page
IdReplies ==
    {Response(200, PageData(PyList(<<IdResult(encoded_id), RegularResult>>),
                            PyDict([nextPageCursor |-> PyNone]))) :
        encoded_id \in Ids}

(***************************************************************************)
(* The upstream: the replies the detail endpoint may give                  *)
(***************************************************************************)
\* "Entire home"
EntireHome == PyStr(<<69, 110, 116, 105, 114, 101, 32, 104, 111, 109, 101>>)

\* the regular payload: a room type, a capacity, the amenities "Wifi" and
\* "Pool", the second marked unavailable
RegularDetails ==
    PyDict([room_type |-> EntireHome,
            person_capacity |-> PyInt(4),
            is_super_host |-> PyBool(TRUE),
            amenities |-> PyList(<<PyDict([values |-> PyList(<<
                PyDict([title |-> PyStr(<<87, 105, 102, 105>>),
                        available |-> PyBool(TRUE)]),
                PyDict([title |-> PyStr(<<80, 111, 111, 108>>),
                        available |-> PyBool(FALSE)])>>)])>>)])

\* a payload that names a title and a price, keys of the search record too
OtherDetails ==
    PyDict([title |-> PyStr(<<90>>), price |-> PyInt(1),
            minimum_nights |-> PyInt(2)])

\* payloads of another shape: a list; an amenity whose title is a number
NonDictDetails == PyList(<<PyStr(<<120>>)>>)
BadTitleDetails ==
    PyDict([amenities |-> PyList(<<PyDict([values |-> PyList(<<
                PyDict([title |-> PyInt(5)])>>)])>>)])

\* what pyairbnb.get_details may do besides returning the regular payload:
\* raise, return None, return another payload
VariedDetailReplies ==
    {Raised, PyNone, EmptyDict, OtherDetails, NonDictDetails, BadTitleDetails}

\* the replies to a detail request: budget, the departures left to the
\* upstream
DetailReplies(budget) ==
    {RegularDetails} \cup (IF budget > 0 THEN VariedDetailReplies ELSE {})

DetailCost(r) == IF r = RegularDetails THEN 0 ELSE 1

(***************************************************************************)
(* The scenario and its dates                                              *)
(***************************************************************************)
\* lines 43, 54-66, 1043-1045: scenarios_to_run when RUN_ALL is off and only
\* RUN_5J_3N and RUN_5J_5N are "true": ("5J-3N", 5, 3) and ("5J-5N", 5, 5) of
\* SCENARIOS, with GUESTS at its default
scenarios_to_run ==
    <<[run_id |-> PyStr(<<53, 74, 45, 51, 78>>), days_from_now |-> PyInt(5),
       nights |-> PyInt(3), guests |-> PyInt(2)],
      [run_id |-> PyStr(<<53, 74, 45, 53, 78>>), days_from_now |-> PyInt(5),
       nights |-> PyInt(5), guests |-> PyInt(2)]>>

\* what datetime.now() may give: days before the end of a February and of a
\* year
Nows ==
    {[year |-> 2024, month |-> 2, day |-> 26],
     [year |-> 2025, month |-> 12, day |-> 28]}

IsLeap(year) == year % 4 = 0 /\ (year % 100 # 0 \/ year % 400 = 0)

DaysInMonth(year, month) ==
    IF month = 2 THEN (IF IsLeap(year) THEN 29 ELSE 28)
    ELSE IF month \in {4, 6, 9, 11} THEN 30 ELSE 31

\* date + timedelta(days=days), days >= 0
RECURSIVE AddDays(_, _)
AddDays(date, days) ==
    IF days = 0 THEN date
    ELSE IF date.day < DaysInMonth(date.year, date.month)
    THEN AddDays([date EXCEPT !.day = @ + 1], days - 1)
    ELSE IF date.month < 12
    THEN AddDays([date EXCEPT !.month = @ + 1, !.day = 1], days - 1)
    ELSE AddDays([year |-> date.year + 1, month |-> 1, day |-> 1], days - 1)

\* the digits of n on at least width places
RECURSIVE ZeroPad(_, _)
ZeroPad(digits, width) ==
    IF Len(digits) >= width THEN digits ELSE ZeroPad(<<48>> \o digits, width)

\* date.strftime("%Y-%m-%d")
FormatDate(date) ==
    PyStr(ZeroPad(DecimalDigits(date.year), 4) \o <<45>>
              \o ZeroPad(DecimalDigits(date.month), 2) \o <<45>>
              \o ZeroPad(DecimalDigits(date.day), 2))

(***************************************************************************)
(* State                                                                   *)
(***************************************************************************)
VARIABLES
    pc,               \* "search": at the top of the page loop; "await": a
                      \* search request is out; "details": at the top of the
                      \* detail loop; "fetch": a detail request is out;
                      \* "fetched": get_listing_details returned; "returned",
                      \* "raised": run_scenario is over; "extract",
                      \* "extracted": before and after a call of
                      \* extract_details alone; "export": main is past its
                      \* loop; "exported": export_to_csv was called;
                      \* "aborted": an exception left main
    check_in,         \* check_in of run_scenario
    check_out,        \* check_out of run_scenario
    all_listings,     \* all_listings of search_listings, which is listings
                      \* of run_scenario once the search returned
    cursor,           \* cursor of search_listings
    page_count,       \* page_count of search_listings
    global_position,  \* global_position of search_listings
    idx,              \* listings of run_scenario processed by its loop
    details,          \* details of run_scenario, PyNone before
    extracted,        \* what extract_details returned, PyNone before
    output,           \* what run_scenario returned, PyNone before
    request,          \* the last request issued, PyNone before
    reply,            \* the reply to it
    requests,         \* search requests issued so far
    raw_count,        \* raw results of the pages handled to their end
    dropped_at,       \* the indices among them of the results dropped
    found,            \* what search_listings returned, PyNone before
    exit,             \* how its loop was left, "" before: "raise", "status",
                      \* "json", the request raised, the status was not
                      \* 200, the body was no JSON; "errors", "empty",
                      \* "no cursor", "except" of Exit; "cap", the loop
                      \* condition failed
    failed,           \* the listings, by index, whose detail request raised
    deviations,       \* departures of the upstream so far
    scenario,         \* idx of main: the scenario of scenarios_to_run that runs
    main_listings     \* all_listings of main

vars ==
    <<pc, check_in, check_out, all_listings, cursor, page_count,
      global_position, idx, details, extracted, output, request, reply,
      requests, raw_count, dropped_at, found, exit, failed, deviations,
      scenario, main_listings>>

run_vars == <<check_in, check_out, idx, details, extracted, output, failed>>

main_vars == <<scenario, main_listings>>

\* line 1055: the scenario main runs, the arguments of its run_scenario
Scenario == scenarios_to_run[scenario]

\* a check-out counted from now, not from the check-in
CheckOutFromNow(now) == FormatDate(AddDays(now, Scenario.nights.v))

\* lines 792-795: check_in and check_out
CheckIn(now) == FormatDate(AddDays(now, Scenario.days_from_now.v))
CheckOut(now) ==
    FormatDate(AddDays(AddDays(now, Scenario.days_from_now.v), Scenario.nights.v))

\* lines 188-191: the locals of search_listings, and of run_scenario so far
Locals ==
    /\ all_listings = <<>>
    /\ cursor = PyNone
    /\ page_count = 0
    /\ global_position = 0
    /\ idx = 0
    /\ extracted = PyNone
    /\ output = PyNone
    /\ request = PyNone
    /\ reply = PyNone
    /\ requests = 0
    /\ raw_count = 0
    /\ dropped_at = {}
    /\ found = PyNone
    /\ exit = ""
    /\ failed = {}
    /\ deviations = 0

\* lines 792-795, 188-191, and the first test of the loop condition
Init ==
    /\ scenario = 1
    /\ main_listings = <<>>
    /\ pc = IF LoopCondition(0) THEN "search" ELSE "details"
    /\ \E now \in Nows : check_in = CheckIn(now) /\ check_out = CheckOut(now)
    /\ details = PyNone
    /\ Locals

(***************************************************************************)
(* search_listings                                                         *)
(***************************************************************************)
\* lines 195-205: page_count += 1 and the POST, to which the upstream
\* replies r
SearchRequest(r) ==
    /\ pc = "search"
    /\ page_count' = page_count + 1
    /\ request' = [op |-> "search", cursor |-> CursorFilter(cursor)]
    /\ reply' = r
    /\ requests' = requests + 1
    /\ deviations' = deviations + ReplyCost(r)
    /\ pc' = "await"
    /\ UNCHANGED <<all_listings, cursor, global_position, raw_count,
                   dropped_at, found, exit, run_vars, main_vars>>

\* lines 298, 304: return all_listings, the loop left as how tells
SearchReturns(how, listings) ==
    /\ pc' = "details"
    /\ all_listings' = listings
    /\ found' = PyList(listings)
    /\ exit' = how

SearchPending == pc = "await"

\* lines 199-205, 300-304: the POST raised
SearchRequestRaised ==
    /\ SearchPending
    /\ reply = Raised
    /\ SearchReturns("raise", all_listings)
    /\ UNCHANGED <<cursor, page_count, global_position, request, reply,
                   requests, raw_count, dropped_at, deviations, run_vars, main_vars>>

\* lines 207-209: a status that is not 200
SearchHttpError ==
    /\ SearchPending
    /\ reply # Raised
    /\ reply.status_code # 200
    /\ SearchReturns("status", all_listings)
    /\ UNCHANGED <<cursor, page_count, global_position, request, reply,
                   requests, raw_count, dropped_at, deviations, run_vars, main_vars>>

\* lines 211, 300-304: response.json() raised
SearchBodyUndecodable ==
    /\ SearchPending
    /\ reply # Raised
    /\ reply.status_code = 200
    /\ reply.json = Raised
    /\ SearchReturns("json", all_listings)
    /\ UNCHANGED <<cursor, page_count, global_position, request, reply,
                   requests, raw_count, dropped_at, deviations, run_vars, main_vars>>

\* the raw results of a body whose page is handled to the extend of line 282
HandledResults(data) ==
    LET errors == HasErrors(data)
        search_results == PyGet(ResultsOf(data), "searchResults", EmptyList)
    IN  IF errors = Raised \/ errors.v THEN <<>>
        ELSE IF search_results = Raised \/ search_results.t # "list" THEN <<>>
        ELSE IF \E i \in 1..Len(search_results.v) :
                    ProcessResult(search_results.v[i], 0, 0) = Raised
        THEN <<>>
        ELSE search_results.v

\* lines 211-298: the body is decoded and handled; the loop condition is
\* tested again when the loop goes on
SearchPage ==
    /\ SearchPending
    /\ reply # Raised
    /\ reply.status_code = 200
    /\ reply.json # Raised
    /\ \E after \in {HandleData(reply.json, all_listings, cursor, page_count,
                                global_position)} :
       \E seen \in {HandledResults(reply.json)} :
           /\ cursor' = after.cursor
           /\ global_position' = after.global_position
           /\ raw_count' = raw_count + Len(seen)
           /\ dropped_at' = dropped_at \cup
                  {raw_count + i : i \in {j \in 1..Len(seen) :
                                            ~Truthy(DecodeRoomId(seen[j]))}}
           /\ IF after.how = "again" /\ LoopCondition(page_count)
              THEN /\ pc' = "search"
                   /\ all_listings' = after.all_listings
                   /\ UNCHANGED <<found, exit>>
              ELSE SearchReturns(IF after.how = "again" THEN "cap" ELSE after.how,
                                 after.all_listings)
    /\ UNCHANGED <<page_count, request, reply, requests, deviations, run_vars, main_vars>>

\* the search with an upstream that holds pages pages
SearchStep(pages) ==
    \/ \E r \in SearchReplies(page_count < MaxVariedPages,
                              MaxDeviations - deviations,
                              page_count + 1 < pages) : SearchRequest(r)
    \/ SearchRequestRaised
    \/ SearchHttpError
    \/ SearchBodyUndecodable
    \/ SearchPage

SearchNext == SearchStep(MAX_PAGES + 1)

SearchSpec == Init /\ [][SearchNext]_vars

(***************************************************************************)
(* get_listing_details and run_scenario                                    *)
(***************************************************************************)
\* get_listing_details without its try
GetListingDetailsUnguarded(r) == r

\* lines 313-322: what get_listing_details returns when pyairbnb.get_details
\* replies r
GetListingDetails(r) == IF r = Raised THEN PyNone ELSE r

\* an assignment where lines 826 and 834-839 update
UpdateReplacing(listing, other) == other

\* dict.update(other)
Update(listing, other) ==
    PyDict([k \in DOMAIN listing.v \cup DOMAIN other.v |->
               IF k \in DOMAIN other.v THEN other.v[k] ELSE listing.v[k]])

\* lines 834-839: the metadata of the run on one listing
Stamp(listing) ==
    Update(listing,
           PyDict([run_id |-> Scenario.run_id,
                   checkin_date |-> check_in,
                   checkout_date |-> check_out,
                   nights |-> Scenario.nights,
                   days_from_now |-> Scenario.days_from_now,
                   guests |-> Scenario.guests]))

\* a bare return where line 808 returns []
NoListingsReturningNone ==
    /\ pc = "details"
    /\ ~Truthy(PyList(all_listings))
    /\ output' = PyNone
    /\ pc' = "returned"
    /\ UNCHANGED <<check_in, check_out, all_listings, cursor, page_count,
                   global_position, idx, details, extracted, request, reply,
                   requests, raw_count, dropped_at, found, exit, failed,
                   deviations, main_vars>>

\* lines 806-808: the search found nothing
NoListings ==
    /\ pc = "details"
    /\ ~Truthy(PyList(all_listings))
    /\ output' = EmptyList
    /\ pc' = "returned"
    /\ UNCHANGED <<check_in, check_out, all_listings, cursor, page_count,
                   global_position, idx, details, extracted, request, reply,
                   requests, raw_count, dropped_at, found, exit, failed, deviations, main_vars>>

\* lines 816-822, 314-319: the next listing of the loop, and the call of
\* pyairbnb.get_details for it, to which the upstream replies r
DetailRequest(r) ==
    /\ pc = "details"
    /\ idx < Len(all_listings)
    /\ request' = [op |-> "details", room_id |-> all_listings[idx + 1].v.room_id]
    /\ reply' = r
    /\ deviations' = deviations + DetailCost(r)
    /\ pc' = "fetch"
    /\ UNCHANGED <<check_in, check_out, all_listings, cursor, page_count,
                   global_position, idx, details, extracted, output, requests,
                   raw_count, dropped_at, found, exit, failed, main_vars>>

\* lines 320-322, 822: get_listing_details returns
DetailFetched ==
    /\ pc = "fetch"
    /\ details' = GetListingDetails(reply)
    /\ failed' = IF reply = Raised THEN failed \cup {idx + 1} ELSE failed
    /\ pc' = "fetched"
    /\ UNCHANGED <<check_in, check_out, all_listings, cursor, page_count,
                   global_position, idx, extracted, output, request, reply, requests,
                   raw_count, dropped_at, found, exit, deviations, main_vars>>

\* lines 824, 828: nothing to extract from, on to the next listing
NoDetails ==
    /\ pc = "fetched"
    /\ ~Truthy(details)
    /\ idx' = idx + 1
    /\ pc' = "details"
    /\ UNCHANGED <<check_in, check_out, all_listings, cursor, page_count,
                   global_position, details, extracted, output, request,
                   reply, requests, raw_count, dropped_at, found, exit, failed,
                   deviations, main_vars>>

\* lines 824-828: extract_details and listing.update
Enrich ==
    /\ pc = "fetched"
    /\ Truthy(details)
    /\ ExtractDetails(details) # Raised
    /\ extracted' = ExtractDetails(details)
    /\ all_listings' = [all_listings EXCEPT ![idx + 1] = Update(@, extracted')]
    /\ idx' = idx + 1
    /\ pc' = "details"
    /\ UNCHANGED <<check_in, check_out, cursor, page_count, global_position,
                   details, output, request, reply, requests, raw_count,
                   dropped_at, found, exit, failed, deviations, main_vars>>

\* line 825: extract_details raises, and so does run_scenario, which has no
\* handler
EnrichRaised ==
    /\ pc = "fetched"
    /\ Truthy(details)
    /\ ExtractDetails(details) = Raised
    /\ pc' = "raised"
    /\ UNCHANGED <<check_in, check_out, all_listings, cursor, page_count,
                   global_position, idx, details, extracted, output, request,
                   reply, requests, raw_count, dropped_at, found, exit, failed,
                   deviations, main_vars>>

\* lines 833-841: the loop is over; the metadata, and the return
Return ==
    /\ pc = "details"
    /\ Truthy(PyList(all_listings))
    /\ idx = Len(all_listings)
    /\ all_listings' = [i \in 1..Len(all_listings) |-> Stamp(all_listings[i])]
    /\ output' = PyList(all_listings')
    /\ pc' = "returned"
    /\ UNCHANGED <<check_in, check_out, cursor, page_count, global_position,
                   idx, details, extracted, request, reply, requests,
                   raw_count, dropped_at, found, exit, failed, deviations, main_vars>>

\* run_scenario with an upstream that holds MaxVariedPages pages
Next ==
    \/ SearchStep(MaxVariedPages)
    \/ NoListings
    \/ \E r \in DetailReplies(MaxDeviations - deviations) : DetailRequest(r)
    \/ DetailFetched
    \/ NoDetails
    \/ Enrich
    \/ EnrichRaised
    \/ Return

Spec == Init /\ [][Next]_vars

(***************************************************************************)
(* extract_details alone                                                   *)
(***************************************************************************)
\* amenity titles, available markers and room types of the payloads
PayloadTitles ==
    {PyStr(<<87, 105, 102, 105>>), PyStr(<<>>), PyInt(5), PyInt(0), PyNone}
PayloadMarkers == {PyBool(TRUE), PyBool(FALSE), PyNone}
PayloadRoomTypes == {EntireHome, PyInt(3), PyNone}

\* an amenity item that is marked neither available nor not
Titled(title) == PyDict([title |-> PyStr(title)])

\* lines 630-639: a payload of one category, of the items titled titles
OneCategory(titles) ==
    PyDict([amenities |-> PyList(<<PyDict([values |->
        PyList([i \in 1..Len(titles) |-> Titled(titles[i])])])>>)])

\* "Wifi", "TV", "Safe", "Coffre-fort", "Safety card", "Zed", "Pool"
Wifi == <<87, 105, 102, 105>>
TV == <<84, 86>>
Safe == <<83, 97, 102, 101>>
CoffreFort == <<67, 111, 102, 102, 114, 101, 45, 102, 111, 114, 116>>
SafetyCard == <<83, 97, 102, 101, 116, 121, 32, 99, 97, 114, 100>>
Zed == <<90, 101, 100>>
Pool == <<80, 111, 111, 108>>

\* a payload of four categories: one of an item that is not marked, an item
\* marked unavailable, an item with no title and an item marked available;
\* one that is a str; one whose values are null; one of an item and a str
ManyCategories ==
    PyDict([amenities |-> PyList(<<
        PyDict([values |-> PyList(<<
            Titled(Wifi),
            PyDict([title |-> PyStr(Pool), available |-> PyBool(FALSE)]),
            PyDict([available |-> PyBool(TRUE)]),
            PyDict([title |-> PyStr(Zed), available |-> PyBool(TRUE)])>>)]),
        PyStr(<<120>>),
        PyDict([values |-> PyNone]),
        PyDict([values |-> PyList(<<
            PyDict([title |-> PyStr(Safe), available |-> PyBool(TRUE)]),
            PyStr(<<120>>)>>)])>>)])

\* the same two items in two categories, one way round and the other
TwoCategories(first, second) ==
    PyDict([amenities |-> PyList(<<
        PyDict([values |-> PyList(<<Titled(first)>>)]),
        PyDict([values |-> PyList(<<Titled(second)>>)])>>)])

\* payloads of amenities
AmenityPayloads ==
    {ManyCategories}
        \cup {OneCategory(titles) :
                 titles \in {<<Safe>>, <<SafetyCard>>, <<Wifi, Safe>>,
                             <<Safe, Wifi>>, <<TV, Wifi>>, <<Wifi, TV>>,
                             <<CoffreFort, SafetyCard>>, <<CoffreFort>>,
                             <<Wifi, Zed, Pool>>}}
        \cup {TwoCategories(Wifi, Safe), TwoCategories(Safe, Wifi)}

\* lines 567-577: host_details with instantBookEnabled at the end of its path
HostDetails(instant_book_enabled) ==
    PyDict([data |-> PyDict([presentation |-> PyDict([userProfileContainer |->
        PyDict([userProfile |-> PyDict([managedListings |-> PyList(<<
            PyDict([instantBookEnabled |-> instant_book_enabled])>>)])])])])])

\* host_details with no managed listing
NoManagedListings ==
    PyDict([data |-> PyDict([presentation |-> PyDict([userProfileContainer |->
        PyDict([userProfile |-> PyDict([managedListings |-> EmptyList])])])])])

\* lines 567-585: payloads of the nested path and the three flatter fields
\* of instant_book, null where a field is absent
InstantBookPayloads ==
    {PyDict([host_details |-> host_details,
             is_instant_bookable |-> is_instant_bookable,
             instant_book |-> instant_book,
             instant_bookable |-> instant_bookable]) :
        host_details \in {PyNone, NoManagedListings, HostDetails(PyNone),
                          HostDetails(PyBool(TRUE)), HostDetails(PyBool(FALSE))},
        is_instant_bookable \in {PyNone, PyBool(TRUE), PyBool(FALSE)},
        instant_book \in {PyNone, PyBool(TRUE)},
        instant_bookable \in {PyNone, PyBool(TRUE)}}

\* lines 598-605: a calendar with minNights and maxNights at the end of
\* their path
Calendar(min_n, max_n) ==
    PyList(<<PyDict([days |-> PyList(<<
        PyDict([minNights |-> min_n, maxNights |-> max_n])>>)])>>)

\* lines 598-624: payloads of the nested path and the four flatter fields of
\* min_nights and max_nights, null where a field is absent; a calendar of a
\* number, on which line 602 raises
NightsPayloads ==
    {PyDict([calendar |-> calendar,
             min_nights |-> min_nights, minimum_nights |-> minimum_nights,
             max_nights |-> max_nights, maximum_nights |-> maximum_nights]) :
        calendar \in {PyNone, PyList(<<PyInt(5)>>)}
                        \cup {Calendar(min_n, max_n) :
                                 min_n \in {PyNone, EmptyStr, PyInt(0), PyInt(2)},
                                 max_n \in {PyNone, PyInt(30)}},
        min_nights \in {PyNone, PyInt(0), PyInt(3)},
        minimum_nights \in {PyNone, PyInt(4)},
        max_nights \in {PyNone, PyInt(60)},
        maximum_nights \in {PyNone, PyInt(90)}}

\* the payloads: absent, empty, of another type, and dicts
Payloads ==
    {PyNone, EmptyDict, EmptyList, EmptyStr, PyInt(0), PyBool(FALSE),
     NonDictDetails, PyStr(<<120>>), PyInt(7), PyBool(TRUE),
     RegularDetails, OtherDetails, BadTitleDetails}
        \cup AmenityPayloads
        \cup InstantBookPayloads
        \cup NightsPayloads
        \cup {PyDict([room_type |-> room_type,
                      amenities |-> PyList(<<PyDict([values |-> PyList(<<
                          PyDict([title |-> title, available |-> available])>>)])>>)]) :
                 room_type \in PayloadRoomTypes, title \in PayloadTitles,
                 available \in PayloadMarkers}

ExtractInit ==
    /\ scenario = 1
    /\ main_listings = <<>>
    /\ pc = "extract"
    /\ check_in = PyNone
    /\ check_out = PyNone
    /\ details \in Payloads
    /\ Locals

\* line 825: extracted = extract_details(details)
Extract ==
    /\ pc = "extract"
    /\ extracted' = ExtractDetails(details)
    /\ pc' = "extracted"
    /\ UNCHANGED <<check_in, check_out, all_listings, cursor, page_count,
                   global_position, idx, details, output, request, reply,
                   requests, raw_count, dropped_at, found, exit, failed, deviations, main_vars>>

ExtractNext == Extract

ExtractSpec == ExtractInit /\ [][ExtractNext]_vars

(***************************************************************************)
(* search_listings on one page of two results                              *)
(***************************************************************************)
DecodeNext ==
    \/ \E r \in IdReplies : SearchRequest(r)
    \/ SearchPage

DecodeSpec == Init /\ [][DecodeNext]_vars

(***************************************************************************)
(* main: the loop over scenarios_to_run (lines 1053-1077)                  *)
(***************************************************************************)
\* a search that goes on from the page, the position and the cursor at which
\* the search of the scenario before it stopped
ScenarioReturnedSearchingOn ==
    /\ pc = "returned"
    /\ main_listings' = main_listings \o output.v
    /\ IF scenario < Len(scenarios_to_run)
       THEN /\ scenario' = scenario + 1
            /\ \E now \in Nows :
                   /\ check_in = CheckIn(now)
                   /\ check_in' = CheckIn(now)'
                   /\ check_out' = CheckOut(now)'
            /\ pc' = IF LoopCondition(page_count) THEN "search" ELSE "details"
            /\ all_listings' = <<>>
            /\ idx' = 0
            /\ details' = PyNone
            /\ extracted' = PyNone
            /\ output' = PyNone
            /\ request' = PyNone
            /\ reply' = PyNone
            /\ requests' = 0
            /\ raw_count' = 0
            /\ dropped_at' = {}
            /\ found' = PyNone
            /\ exit' = ""
            /\ failed' = {}
            /\ UNCHANGED <<cursor, page_count, global_position, deviations>>
       ELSE /\ pc' = "export"
            /\ UNCHANGED <<check_in, check_out, all_listings, cursor,
                           page_count, global_position, idx, details,
                           extracted, output, request, reply, requests,
                           raw_count, dropped_at, found, exit, failed,
                           deviations, scenario>>

\* lines 1060-1068, 792-804, 188-191: run_scenario returned; main extends its
\* list and, when a scenario is left, calls run_scenario for it, which
\* computes its dates, on the day of now on which the scenario before it
\* began, and calls search_listings
ScenarioReturned ==
    /\ pc = "returned"
    /\ main_listings' = main_listings \o output.v
    /\ IF scenario < Len(scenarios_to_run)
       THEN /\ scenario' = scenario + 1
            /\ \E now \in Nows :
                   /\ check_in = CheckIn(now)
                   /\ check_in' = CheckIn(now)'
                   /\ check_out' = CheckOut(now)'
            /\ pc' = IF LoopCondition(0) THEN "search" ELSE "details"
            /\ all_listings' = <<>>
            /\ cursor' = PyNone
            /\ page_count' = 0
            /\ global_position' = 0
            /\ idx' = 0
            /\ details' = PyNone
            /\ extracted' = PyNone
            /\ output' = PyNone
            /\ request' = PyNone
            /\ reply' = PyNone
            /\ requests' = 0
            /\ raw_count' = 0
            /\ dropped_at' = {}
            /\ found' = PyNone
            /\ exit' = ""
            /\ failed' = {}
            /\ UNCHANGED deviations
       ELSE /\ pc' = "export"
            /\ UNCHANGED <<check_in, check_out, all_listings, cursor,
                           page_count, global_position, idx, details,
                           extracted, output, request, reply, requests,
                           raw_count, dropped_at, found, exit, failed,
                           deviations, scenario>>

\* line 1060: run_scenario raised; main has no handler, and neither has its
\* caller (lines 1139-1140): the exception leaves main
ScenarioRaised ==
    /\ pc = "raised"
    /\ pc' = "aborted"
    /\ UNCHANGED <<check_in, check_out, all_listings, cursor, page_count,
                   global_position, idx, details, extracted, output, request,
                   reply, requests, raw_count, dropped_at, found, exit, failed,
                   deviations, main_vars>>

\* lines 1075-1077: export_to_csv(all_listings, filename)
Export ==
    /\ pc = "export"
    /\ pc' = "exported"
    /\ UNCHANGED <<check_in, check_out, all_listings, cursor, page_count,
                   global_position, idx, details, extracted, output, request,
                   reply, requests, raw_count, dropped_at, found, exit, failed,
                   deviations, main_vars>>

\* the pages the upstream holds for each scenario of scenarios_to_run
UpstreamPages == <<2, 1>>

MainNext ==
    \/ SearchStep(UpstreamPages[scenario])
    \/ NoListings
    \/ \E r \in DetailReplies(MaxDeviations - deviations) : DetailRequest(r)
    \/ DetailFetched
    \/ NoDetails
    \/ Enrich
    \/ EnrichRaised
    \/ Return
    \/ ScenarioReturned
    \/ ScenarioRaised
    \/ Export

MainSpec == Init /\ [][MainNext]_vars

(***************************************************************************)
(* Properties of search_listings                                           *)
(***************************************************************************)
Positions(listings) == [i \in 1..Len(listings) |-> listings[i].v.position.v]
Pages(listings) == [i \in 1..Len(listings) |-> listings[i].v.page.v]
RoomIds(listings) == [i \in 1..Len(listings) |-> listings[i].v.room_id]

StrictlyIncreasing(ns) == \A i \in 1..(Len(ns) - 1) : ns[i] < ns[i + 1]
NonDecreasing(ns) == \A i \in 1..(Len(ns) - 1) : ns[i] <= ns[i + 1]

\* a reply is being handled that is a page: status 200 and a JSON body
PageInHand ==
    pc = "await" /\ reply # Raised /\ reply.status_code = 200 /\ reply.json # Raised

\* the raw results of the page in hand when its records are appended
SeenResults == IF PageInHand THEN HandledResults(reply.json) ELSE <<>>

\* the identifiers, in order, of the results among them that have one
KeptIds(results) ==
    LET ids == [i \in 1..Len(results) |-> DecodeRoomId(results[i])]
        HasId(room_id) == Truthy(room_id)
    IN  SelectSeq(ids, HasId)

\* the records a step appends to all_listings
Appended == SubSeq(all_listings', Len(all_listings) + 1, Len(all_listings'))

\* a step of the search keeps the records it has
KeepsRecords ==
    /\ Len(all_listings') >= Len(all_listings)
    /\ SubSeq(all_listings', 1, Len(all_listings)) = all_listings

\* C1: the list search_listings returns has strictly increasing (so pairwise
\* distinct) positions and non-decreasing pages, and it is in the order of
\* the upstream: the handling of a page keeps the records of the earlier
\* pages where they are and appends after them the records of its results
\* that have an identifier, in the order of the results.
C1_PositionsFollowUpstream ==
    /\ [](found # PyNone =>
            /\ found.v = all_listings
            /\ StrictlyIncreasing(Positions(found.v))
            /\ NonDecreasing(Pages(found.v)))
    /\ [][pc = "await" =>
            /\ KeepsRecords
            /\ StrictlyIncreasing(Positions(all_listings'))
            /\ Appended # <<>> =>
                   /\ RoomIds(Appended) = KeptIds(SeenResults)
                   /\ \A i \in 1..Len(Appended) :
                          Appended[i].v.page.v = page_count]_vars

\* three records returned, of two pages, two of them of one page
C1_Witness ==
    /\ found # PyNone
    /\ Len(found.v) >= 3
    /\ \E i, j \in 1..Len(found.v) :
           i < j /\ found.v[i].v.page.v < found.v[j].v.page.v
    /\ \E i, j \in 1..Len(found.v) :
           i < j /\ found.v[i].v.page.v = found.v[j].v.page.v

\* C2: the counter is incremented once for every raw result, before the
\* identifier is validated: it equals the number of raw results seen; the
\* i-th raw result of a page, the (raw_count + i)-th of all pages, yields
\* exactly one record, with position raw_count + i and its identifier, when
\* it has a decodable identifier, and no record when it has none, its number
\* going to no other record.
C2_PositionIsRawIndex ==
    /\ [](pc = "search" => global_position = raw_count)
    /\ [][pc = "await" =>
            \A i \in 1..Len(SeenResults) :
                LET at == {j \in 1..Len(all_listings') :
                              all_listings'[j].v.position.v = raw_count + i}
                    room_id == DecodeRoomId(SeenResults[i])
                IN  IF Truthy(room_id)
                    THEN /\ Cardinality(at) = 1
                         /\ \A j \in at : /\ j > Len(all_listings)
                                          /\ all_listings'[j].v.room_id = room_id
                    ELSE at = {}]_vars

\* the loop goes on after a page with a result dropped before a result kept
C2_Witness ==
    /\ pc = "search"
    /\ \E d \in dropped_at :
           \E i \in 1..Len(all_listings) :
               all_listings[i].v.position.v = d + 1
                   /\ all_listings[i].v.page.v = page_count

\* C3 as claimed: no result without a decodable identifier is in the list
\* returned, and the positions of the list are consecutive integers, none
\* missing, whatever was dropped.
C3_ConsecutivePositions ==
    found # PyNone =>
        /\ \A i \in 1..Len(found.v) : Truthy(found.v[i].v.room_id)
        /\ \A i \in 1..(Len(found.v) - 1) :
               found.v[i + 1].v.position.v = found.v[i].v.position.v + 1

\* C3 as amended: no result without a decodable identifier is in the list
\* returned, and the positions of the list are the raw indices of the
\* results kept: the number of a dropped result is missing from them.
C3_DroppedLeaveGaps ==
    found # PyNone =>
        /\ \A i \in 1..Len(found.v) : Truthy(found.v[i].v.room_id)
        /\ {found.v[i].v.position.v : i \in 1..Len(found.v)}
               = (1..raw_count) \ dropped_at

\* a list is returned that has a record after a dropped result
C3_Witness ==
    /\ found # PyNone
    /\ \E d \in dropped_at :
           \E i \in 1..Len(found.v) : found.v[i].v.position.v > d

\* the searchResults of a reply that is a page without an error list, <<>>
\* when they are no list; the paginationInfo of the reply; its cursor
IsPage(r) ==
    /\ r # PyNone /\ r # Raised /\ r.status_code = 200 /\ r.json # Raised
    /\ HasErrors(r.json) = PyBool(FALSE)
    /\ PyGet(ResultsOf(r.json), "searchResults", EmptyList) # Raised
    /\ PyGet(ResultsOf(r.json), "searchResults", EmptyList).t = "list"

RawResultsOf(r) == PyGet(ResultsOf(r.json), "searchResults", EmptyList).v
PaginationOf(r) == PyGet(ResultsOf(r.json), "paginationInfo", EmptyDict)

HasNextCursor(r) ==
    /\ PaginationOf(r).t = "dict"
    /\ Truthy(PyGet(PaginationOf(r), "nextPageCursor", PyNone))

\* C4: a page with zero results ends the search, also when it names a next
\* page: search_listings returns, with the records of the earlier pages, and
\* issues no request.
C4_EmptyPageStops ==
    [][pc = "await" /\ IsPage(reply) /\ RawResultsOf(reply) = <<>> =>
          /\ pc' = "details"
          /\ found' = PyList(all_listings)
          /\ requests' = requests]_vars

\* the search returned records after a page with zero results and a cursor
C4_Witness ==
    /\ found # PyNone
    /\ found.v # <<>>
    /\ IsPage(reply)
    /\ RawResultsOf(reply) = <<>>
    /\ HasNextCursor(reply)

\* C5 as claimed: the loop goes on to the next request whenever a page is a
\* success, has at least one result, each handled without an exception,
\* names a next page and is not the last the cap allows; also when every
\* result was dropped.
C5_NextPageOnAnyResult ==
    [][/\ pc = "await"
       /\ IsPage(reply)
       /\ RawResultsOf(reply) # <<>>
       /\ SeenResults = RawResultsOf(reply)
       /\ HasNextCursor(reply)
       /\ page_count < MAX_PAGES
       => pc' = "search" /\ cursor' = NextCursor(ResultsOf(reply.json))]_vars

\* C5 as amended: the loop goes on to the next request exactly when the page
\* is a success, at least one of its results is kept, it names a next page
\* and it is not the last the cap allows; a page whose results were all
\* dropped ends the search.
C5_NextPageOnKeptResult ==
    [][pc = "await" =>
          (pc' = "search" /\ cursor' = PyGet(PaginationOf(reply), "nextPageCursor", PyNone)
              /\ found' = PyNone)
          <=> /\ IsPage(reply)
              /\ SeenResults = RawResultsOf(reply)
              /\ KeptIds(SeenResults) # <<>>
              /\ HasNextCursor(reply)
              /\ page_count < MAX_PAGES]_vars

\* the loop goes on after a page with a result dropped and a result kept
C5_Witness ==
    /\ pc = "search"
    /\ page_count >= 1
    /\ IsPage(reply)
    /\ cursor = PyGet(PaginationOf(reply), "nextPageCursor", PyNone)
    /\ \E i \in 1..Len(RawResultsOf(reply)) :
           ~Truthy(DecodeRoomId(RawResultsOf(reply)[i]))
    /\ \E i \in 1..Len(all_listings) : all_listings[i].v.page.v = page_count

\* the ways the handling of a page fails
Failures == {"raise", "status", "json", "errors", "except"}

\* C6 as claimed: when the handling of page k fails, search_listings returns
\* (it raises nothing and issues no request) exactly the records of the
\* pages before k.
C6_FailureReturnsEarlierPages ==
    [][pc = "await" /\ exit' \in Failures =>
          /\ pc' = "details"
          /\ requests' = requests
          /\ found' = PyList(all_listings)]_vars

\* the records of page k are appended, and the pagination of the page is
\* none to read a cursor from
FailsAfterExtend ==
    /\ IsPage(reply)
    /\ SeenResults = RawResultsOf(reply)
    /\ KeptIds(SeenResults) # <<>>
    /\ PaginationOf(reply).t # "dict"

\* C6 as amended: when the handling of page k fails, search_listings returns
\* (it raises nothing and issues no request) the records of the pages
\* before k, followed by the records of page k when the failure is that of
\* reading the cursor, which comes after they are appended.
C6_FailureReturnsAccumulated ==
    [][pc = "await" /\ exit' \in Failures =>
          /\ pc' = "details"
          /\ requests' = requests
          /\ found' = PyList(all_listings')
          /\ KeepsRecords
          /\ IF FailsAfterExtend
             THEN /\ RoomIds(Appended) = KeptIds(SeenResults)
                  /\ \A i \in 1..Len(Appended) : Appended[i].v.page.v = page_count
             ELSE Appended = <<>>]_vars

\* a second page failed on a result, and the record of the first is returned
C6_Witness ==
    /\ found # PyNone
    /\ exit = "except"
    /\ page_count = 2
    /\ Len(found.v) >= 1
    /\ IsPage(reply)
    /\ \E i \in 1..Len(RawResultsOf(reply)) : RawResultsOf(reply)[i] = NullResult

\* the steps search_listings has left at most: two for each page the cap
\* still allows, less one when the request of a page is out
StepsLeft == 2 * (MAX_PAGES - page_count) + (IF pc = "await" THEN 1 ELSE 0)

\* C7: search_listings terminates: while it runs, the number StepsLeft is
\* positive and every step either returns or lowers it, so that it returns
\* after 2 * MAX_PAGES steps at most (a request ends, with a reply or an
\* exception, for it has a timeout); it issues at most MAX_PAGES requests,
\* and the page of every record is one of 1..MAX_PAGES.
C7_TerminatesWithinCap ==
    /\ [](/\ pc \in {"search", "await"} => StepsLeft >= 1
          /\ requests <= MAX_PAGES
          /\ requests = page_count
          /\ \A i \in 1..Len(all_listings) :
                 all_listings[i].v.page.v \in 1..MAX_PAGES)
    /\ [][(pc = "search" \/ pc = "await") =>
            \/ pc' = "details" /\ found' # PyNone
            \/ pc' \in {"search", "await"} /\ StepsLeft' < StepsLeft]_vars

\* the search returned at the cap: MAX_PAGES requests, a record of each page
C7_Witness ==
    /\ found # PyNone
    /\ exit = "cap"
    /\ requests = MAX_PAGES
    /\ {found.v[i].v.page.v : i \in 1..Len(found.v)} = 1..MAX_PAGES

(***************************************************************************)
(* Properties of get_listing_details, extract_details and run_scenario     *)
(***************************************************************************)
\* C8: get_listing_details passes no exception on: when the detail request
\* raises it returns None, and run_scenario neither raises nor stops there:
\* it leaves the listing as it is and goes on to the request for the next
\* listing, or to the end of the loop after the last.
C8_DetailFailureIsAbsence ==
    /\ [][pc = "fetch" /\ reply = Raised =>
            pc' = "fetched" /\ details' = PyNone /\ idx' = idx]_vars
    /\ [][pc = "fetched" /\ (idx + 1) \in failed =>
            /\ pc' = "details"
            /\ idx' = idx + 1
            /\ all_listings' = all_listings]_vars
    /\ [][pc = "details" /\ idx \in failed =>
            IF idx < Len(all_listings)
            THEN /\ pc' = "fetch"
                 /\ request'.room_id = all_listings[idx + 1].v.room_id
            ELSE pc' = "returned"]_vars

\* the request for a listing is out after the request for the listing before
\* it raised
C8_Witness ==
    /\ pc = "fetch"
    /\ idx \in failed
    /\ request.room_id = all_listings[idx + 1].v.room_id

\* the keys of the records of extract_details
EnrichmentKeys == DOMAIN DefaultResult

\* C9 as claimed: extract_details returns, for every payload, a record with
\* every enrichment key; for the payload None, every boolean of it is False,
\* every string empty and amenities_count 0.
C9_ExtractDetailsTotal ==
    pc = "extracted" =>
        /\ extracted # Raised
        /\ extracted.t = "dict"
        /\ DOMAIN extracted.v = EnrichmentKeys
        /\ details = PyNone =>
               \A k \in EnrichmentKeys :
                   extracted.v[k] =
                       IF k = "amenities_count" THEN PyInt(0)
                       ELSE IF extracted.v[k].t = "bool" THEN PyBool(FALSE)
                       ELSE EmptyStr

\* the records, by the keys of the search, are those of the search, in order
SameRecords(listings, records) ==
    /\ Len(records) = Len(listings)
    /\ \A i \in 1..Len(listings) :
           \A k \in DOMAIN listings[i].v :
               /\ k \in DOMAIN records[i].v
               /\ records[i].v[k] = listings[i].v[k]

\* C10 as claimed: when the search returned n >= 1 records, run_scenario
\* returns, and what it returns is those n records in their order, whatever
\* the detail requests do.
C10_AllRecordsReturned ==
    (found # PyNone /\ found.v # <<>> /\ pc \in {"returned", "raised"}) =>
        /\ pc = "returned"
        /\ output.t = "list"
        /\ SameRecords(found.v, output.v)

\* the defaults of the enrichment keys: False, the empty string, 0
HoldsDefaults(record) ==
    /\ EnrichmentKeys \subseteq DOMAIN record.v
    /\ \A k \in EnrichmentKeys : record.v[k] = DefaultResult[k]

\* C11 as claimed: every record run_scenario returns holds every enrichment
\* key, and the record of a listing whose detail request failed holds the
\* default of each of them.
C11_EnrichmentKeysAlwaysPresent ==
    pc = "returned" =>
        \A i \in 1..Len(output.v) :
            /\ EnrichmentKeys \subseteq DOMAIN output.v[i].v
            /\ i \in failed => HoldsDefaults(output.v[i])

\* C12 as claimed: an exception raised while a scenario runs is caught at the
\* boundary of the scenario: main goes on, with the records of the scenarios
\* before it kept and none added for it, to the next scenario or, after the
\* last, to the export; no exception leaves main.
C12_ScenarioFailureContained ==
    /\ [][pc = "raised" =>
            /\ main_listings' = main_listings
            /\ IF scenario < Len(scenarios_to_run)
               THEN scenario' = scenario + 1 /\ pc' = "search"
               ELSE pc' = "export"]_vars
    /\ [](pc # "aborted")

\* C13: when search_listings returned no record, run_scenario returns the
\* empty list at once: its next step is the return of [], no detail request
\* was or is issued (the last request is a search request), and its loop,
\* which sleeps once per listing, has processed nothing.
C13_NoListingsNoDetails ==
    /\ [][pc = "details" /\ found = EmptyList =>
            pc' = "returned" /\ output' = EmptyList]_vars
    /\ [](found = EmptyList =>
            /\ pc \in {"details", "returned"}
            /\ idx = 0
            /\ details = PyNone
            /\ request.op = "search")

\* run_scenario returned after a search that found nothing
C13_Witness ==
    /\ pc = "returned"
    /\ found = EmptyList
    /\ output = EmptyList
    /\ requests >= 1

\* the keys of the metadata of a run
MetadataKeys ==
    {"run_id", "checkin_date", "checkout_date", "nights", "days_from_now",
     "guests"}

\* the number a sequence of decimal digits writes
RECURSIVE DigitsValue(_)
DigitsValue(digits) ==
    IF digits = <<>> THEN 0
    ELSE 10 * DigitsValue(SubSeq(digits, 1, Len(digits) - 1))
             + (digits[Len(digits)] - 48)

\* the date a str "YYYY-MM-DD" writes
DateOf(s) ==
    [year |-> DigitsValue(SubSeq(s.v, 1, 4)),
     month |-> DigitsValue(SubSeq(s.v, 6, 7)),
     day |-> DigitsValue(SubSeq(s.v, 9, 10))]

IsDateStr(s) ==
    /\ s.t = "str"
    /\ Len(s.v) = 10
    /\ s.v[5] = 45
    /\ s.v[8] = 45
    /\ \A i \in {1, 2, 3, 4, 6, 7, 9, 10} : IsDigit(s.v[i])

\* the days from 0001-01-01 to a date of the proleptic Gregorian calendar,
\* plus one (date.toordinal())
Ordinal(date) ==
    LET y == date.year - 1
        before == <<0, 31, 59, 90, 120, 151, 181, 212, 243, 273, 304, 334>>
        leap == date.year % 4 = 0 /\ (date.year % 100 # 0 \/ date.year % 400 = 0)
    IN  365 * y + (y \div 4) - (y \div 100) + (y \div 400)
            + before[date.month] + (IF leap /\ date.month > 2 THEN 1 ELSE 0)
            + date.day

\* C14: every record run_scenario returns holds the metadata of the call,
\* the same on all: run_id, nights, days_from_now and guests as passed,
\* checkin_date the day days_from_now days after now and checkout_date the
\* day nights days after it, both as YYYY-MM-DD; no record holds any of
\* these keys before the detail loop has come to its end.
C14_MetadataOnEveryRecord ==
    /\ IsDateStr(check_in) /\ IsDateStr(check_out)
    /\ \E now \in Nows :
           Ordinal(DateOf(check_in)) = Ordinal(now) + Scenario.days_from_now.v
    /\ Ordinal(DateOf(check_out)) = Ordinal(DateOf(check_in)) + Scenario.nights.v
    /\ pc = "returned" =>
           /\ idx = Len(all_listings)
           /\ \A i \in 1..Len(output.v) :
                  /\ MetadataKeys \subseteq DOMAIN output.v[i].v
                  /\ output.v[i].v.run_id = Scenario.run_id
                  /\ output.v[i].v.checkin_date = check_in
                  /\ output.v[i].v.checkout_date = check_out
                  /\ output.v[i].v.nights = Scenario.nights
                  /\ output.v[i].v.days_from_now = Scenario.days_from_now
                  /\ output.v[i].v.guests = Scenario.guests
    /\ pc # "returned" =>
           \A i \in 1..Len(all_listings) :
               MetadataKeys \cap DOMAIN all_listings[i].v = {}

\* run_scenario returned two records, of a stay that begins on 2026-01-02,
\* five days after a now of the year before, and ends on 2026-01-05
C14_Witness ==
    /\ pc = "returned"
    /\ Len(output.v) >= 2
    /\ output.v[2].v.checkin_date = PyStr(<<50, 48, 50, 54, 45, 48, 49, 45, 48, 50>>)
    /\ output.v[2].v.checkout_date = PyStr(<<50, 48, 50, 54, 45, 48, 49, 45, 48, 53>>)
    /\ output.v[2].v.nights = PyInt(3)

\* the items of a category, none when it is no dict of a list of values
ItemsOf(category) ==
    IF category.t = "dict" /\ PyGet(category, "values", EmptyList).t = "list"
    THEN PyGet(category, "values", EmptyList).v
    ELSE <<>>

\* the items of the categories, in their order
RECURSIVE AllItems(_)
AllItems(categories) ==
    IF categories = <<>> THEN <<>>
    ELSE ItemsOf(Head(categories)) \o AllItems(Tail(categories))

\* the amenity items of a payload
AmenityItems(payload) ==
    IF payload.t = "dict" /\ PyGet(payload, "amenities", EmptyList).t = "list"
    THEN AllItems(PyGet(payload, "amenities", EmptyList).v)
    ELSE <<>>

\* an item judged available: one with no marker is
JudgedAvailable(item) ==
    item.t = "dict" /\ Truthy(PyGet(item, "available", PyBool(TRUE)))

HasTitle(item) == item.t = "dict" /\ Truthy(PyGet(item, "title", EmptyStr))

AvailableAndTitled(item) == JudgedAvailable(item) /\ HasTitle(item)

\* extract_details returned a record
Extracted == pc = "extracted" /\ extracted # Raised

\* C15 as claimed: amenities_count is the number of the amenity items of the
\* payload that are judged available.
C15_CountsAvailableItems ==
    Extracted =>
        extracted.v.amenities_count =
            PyInt(Len(SelectSeq(AmenityItems(details), JudgedAvailable)))

\* C15, amended: amenities_count is the number of the amenity items of the
\* payload that hold a title and are judged available, an item with no
\* marker being so; it is that number whichever flags are set.
C15_CountsAvailableTitledItems ==
    Extracted =>
        extracted.v.amenities_count =
            PyInt(Len(SelectSeq(AmenityItems(details), AvailableAndTitled)))

\* three items counted and two flags set, for a payload that also holds an
\* item marked unavailable and an item with no title
C15_Witness ==
    /\ Extracted
    /\ details = ManyCategories
    /\ extracted.v.amenities_count = PyInt(3)
    /\ Cardinality({k \in DOMAIN AmenityKeywords : extracted.v[k].v}) = 2

\* the titles of the items that count, lower-cased, joined by spaces
Blob(payload) ==
    LET items == SelectSeq(AmenityItems(payload), AvailableAndTitled) IN
    Join(<<32>>, [i \in 1..Len(items) |-> Lower(items[i].v.title.v)])

KeywordOccurs(flag, blob) == \E kw \in AmenityKeywords[flag] : Contains(blob, kw)

\* C16 as claimed: every has_* flag, has_safe too, is True exactly when one
\* of its keywords occurs in the blob of the payload.
C16_FlagIffKeyword ==
    Extracted =>
        \A flag \in DOMAIN AmenityKeywords :
            extracted.v[flag] = PyBool(KeywordOccurs(flag, Blob(details)))

\* C16, amended: every has_* flag but has_safe is True exactly when one of
\* its keywords occurs in the blob of the payload; has_safe is True exactly
\* when one of its keywords occurs in the blob and "safety" does not.
C16_FlagIffKeywordButSafe ==
    Extracted =>
        \A flag \in DOMAIN AmenityKeywords :
            extracted.v[flag] =
                PyBool(/\ KeywordOccurs(flag, Blob(details))
                       /\ flag = "has_safe" => ~Contains(Blob(details), Safety))

\* a blob, "coffre-fort safety card", in which a keyword of has_safe occurs,
\* and has_safe is False
C16_Witness ==
    /\ Extracted
    /\ details = OneCategory(<<CoffreFort, SafetyCard>>)
    /\ KeywordOccurs("has_safe", Blob(details))
    /\ extracted.v.has_safe = PyBool(FALSE)
    /\ extracted.v.has_baby_safety_gates = PyBool(FALSE)

\* what a payload holds at the end of a path of keys, None when the path
\* breaks off
RECURSIVE AtPath(_, _)
AtPath(value, path) ==
    IF path = <<>> THEN value
    ELSE IF value.t = "dict" /\ Head(path) \in DOMAIN value.v
    THEN AtPath(value.v[Head(path)], Tail(path))
    ELSE PyNone

\* the first element of a list, None when there is none
First(value) ==
    IF value.t = "list" /\ Len(value.v) >= 1 THEN value.v[1] ELSE PyNone

\* what the nested host-profile path of instant_book holds
NestedInstantBookValue(payload) ==
    AtPath(First(AtPath(payload,
                        <<"host_details", "data", "presentation",
                          "userProfileContainer", "userProfile",
                          "managedListings">>)),
           <<"instantBookEnabled">>)

\* whether one of the three flatter fields is set
FlatterInstantBook(payload) ==
    \E k \in {"is_instant_bookable", "instant_book", "instant_bookable"} :
        Truthy(AtPath(payload, <<k>>))

\* C17 as claimed: when the nested host-profile path holds True or False,
\* instant_book is that value; the three flatter fields decide only when the
\* path holds neither.
C17_NestedInstantBookWins ==
    (Extracted /\ details \in InstantBookPayloads) =>
        extracted.v.instant_book =
            IF NestedInstantBookValue(details) \in {PyBool(TRUE), PyBool(FALSE)}
            THEN NestedInstantBookValue(details)
            ELSE PyBool(FlatterInstantBook(details))

\* what the nested calendar path holds for a bound, None when it holds
\* nothing
NestedBound(payload, bound) ==
    AtPath(First(AtPath(First(AtPath(payload, <<"calendar">>)), <<"days">>)),
           <<bound>>)

\* a value that populates a field: neither null nor the empty string
Populated(value) == value # PyNone /\ value # EmptyStr

\* a bound by the precedence of its sources
ByPrecedence(payload, bound, first, second) ==
    IF Populated(NestedBound(payload, bound))
    THEN Str(NestedBound(payload, bound))
    ELSE IF Truthy(AtPath(payload, <<first>>))
    THEN Str(AtPath(payload, <<first>>))
    ELSE IF Truthy(AtPath(payload, <<second>>))
    THEN Str(AtPath(payload, <<second>>))
    ELSE EmptyStr

\* C18: min_nights and max_nights are the nested values of the calendar
\* path, as strings, whatever the flatter fields hold (0 is a value); a
\* flatter field is used only for a bound whose nested value is absent
\* (null, empty, or at a path that breaks off), min_nights before
\* minimum_nights and max_nights before maximum_nights.
C18_NestedNightsWin ==
    (Extracted /\ details \in NightsPayloads) =>
        /\ extracted.v.min_nights =
               ByPrecedence(details, "minNights", "min_nights", "minimum_nights")
        /\ extracted.v.max_nights =
               ByPrecedence(details, "maxNights", "max_nights", "maximum_nights")

\* the nested minimum 0 is kept against the flatter fields 3 and 4, and the
\* maximum, absent from the nested path, is the flatter max_nights, 60, not
\* maximum_nights, 90
C18_Witness ==
    /\ Extracted
    /\ details = PyDict([calendar |-> Calendar(PyInt(0), PyNone),
                         min_nights |-> PyInt(3), minimum_nights |-> PyInt(4),
                         max_nights |-> PyInt(60), maximum_nights |-> PyInt(90)])
    /\ extracted.v.min_nights = PyStr(<<48>>)
    /\ extracted.v.max_nights = PyStr(<<54, 48>>)

\* lines 271-280: the keys of a record of search_listings
SearchKeys ==
    {"position", "page", "room_id", "title", "price", "avg_rating_search",
     "reviews_count_search", "is_guest_favorite_search"}

\* C19: no key of a record of extract_details is a key of a search record,
\* and from the return of search_listings on every listing of run_scenario,
\* enriched or not, stamped or not, holds for each search key the value
\* search_listings returned; so do the records run_scenario returns.
C19_SearchFieldsKept ==
    /\ EnrichmentKeys \cap SearchKeys = {}
    /\ (extracted # PyNone /\ extracted # Raised) =>
           DOMAIN extracted.v \cap SearchKeys = {}
    /\ found # PyNone =>
           /\ Len(all_listings) = Len(found.v)
           /\ \A i \in 1..Len(found.v) :
                  /\ DOMAIN found.v[i].v = SearchKeys
                  /\ SearchKeys \subseteq DOMAIN all_listings[i].v
                  /\ \A k \in SearchKeys :
                         all_listings[i].v[k] = found.v[i].v[k]
    /\ pc = "returned" => output = PyList(all_listings)

\* run_scenario returned two records: the detail request of one raised, the
\* other is enriched from a payload that names a title and a price
C19_Witness ==
    /\ pc = "returned"
    /\ Len(output.v) = 2
    /\ failed # {}
    /\ \E i \in 1..2 :
           /\ "min_nights" \in DOMAIN output.v[i].v
           /\ output.v[i].v.min_nights = PyStr(<<50>>)
           /\ output.v[i].v.title = found.v[i].v.title

(***************************************************************************)
(* Properties of the decoding of identifiers                               *)
(***************************************************************************)
\* the id of the first raw result of the page in hand
GivenId == RawResultsOf(reply)[1].v.demandStayListing.v.id

\* a composite key of one separator and an id
WellFormed(namespace, listing_id) ==
    /\ listing_id # <<>>
    /\ Find(namespace, Colon, 1) = 0
    /\ Find(listing_id, Colon, 1) = 0

\* base64 as RFC 4648 writes it: quads of characters of the alphabet, the
\* last of which may end with one or two pads
ValidBase64(s) ==
    /\ Len(s) % 4 = 0
    /\ \A i \in 1..Len(s) :
           \/ B64Value(s[i]) < 64
           \/ /\ s[i] = B64Pad
              /\ i >= Len(s) - 1
              /\ s[Len(s)] = B64Pad

\* the text of valid base64, Raised when its bytes are no UTF-8
TextOf(s) == Utf8Decode(B64Decode(s).v, 1, <<>>)

\* an id that is empty, or valid base64 of bytes that are no UTF-8 or of a
\* text with no separator
Unreadable(x) ==
    \/ ~Truthy(x)
    \/ /\ x.t = "str"
       /\ ValidBase64(x.v)
       /\ (TextOf(x.v) = Raised \/ Find(TextOf(x.v).v, Colon, 1) = 0)

NotBase64(x) == x.t # "str" \/ ~ValidBase64(x.v)

\* the page is handled with no exception, and the regular result after the
\* first is kept, at position 2
OnlyFirstAtStake ==
    /\ exit = "no cursor"
    /\ Len(found.v) >= 1
    /\ found.v[Len(found.v)].v.room_id = PyStr(<<55>>)
    /\ found.v[Len(found.v)].v.position = PyInt(2)

\* the id of a well-formed key is decoded to its listing id
RoundTrips ==
    \A namespace \in Namespaces, listing_id \in ListingIds :
        (WellFormed(namespace, listing_id)
            /\ GivenId = PyStr(EncodeId(namespace, listing_id))) =>
                /\ Len(found.v) = 2
                /\ found.v[1].v.room_id = PyStr(listing_id)
                /\ found.v[1].v.position = PyInt(1)

\* C20 as claimed: the id of a well-formed key decodes to its listing id;
\* an id that is malformed (not base64, not UTF-8, with no separator, empty)
\* raises nothing and yields no id: its result, and only it, is dropped.
C20_DecodingRoundTrips ==
    found # PyNone =>
        /\ OnlyFirstAtStake
        /\ RoundTrips
        /\ (Unreadable(GivenId) \/ NotBase64(GivenId)) => Len(found.v) = 1

\* C20, amended: the id of a well-formed key decodes to its listing id; an
\* id that is malformed raises nothing and costs at most its own result;
\* it yields no id when it is empty, not UTF-8 or with no separator; an id
\* that is not valid base64 may yield one all the same.
C20_DecodingRoundTripsLenient ==
    found # PyNone =>
        /\ OnlyFirstAtStake
        /\ RoundTrips
        /\ Unreadable(GivenId) => Len(found.v) = 1
        /\ NotBase64(GivenId) => Len(found.v) \in {1, 2}

\* the id of the key "StayListing:12345" was decoded to "12345"
C20_Witness ==
    /\ found # PyNone
    /\ GivenId = PyStr(EncodeId(<<83, 116, 97, 121, 76, 105, 115, 116, 105, 110, 103>>, <<49, 50, 51, 52, 53>>))
    /\ Len(found.v) = 2
    /\ found.v[1].v.room_id = PyStr(<<49, 50, 51, 52, 53>>)

(***************************************************************************)
(* Properties of the requests of run_scenario                              *)
(***************************************************************************)
\* the loop of search_listings was left on a failure: the request raised,
\* the status was not 200, the body was no JSON or held errors, or the
\* handling of the body raised
SearchFailed == exit \in Failures

\* the calls of get_listing_details made so far for the i-th record of the
\* search: the loop of lines 816-828 is at record idx + 1
DetailCalls(i) ==
    IF i <= idx THEN 1
    ELSE IF i = idx + 1 /\ pc \in {"fetch", "fetched", "raised"} THEN 1
    ELSE 0

\* C21 as claimed: within one call of run_scenario there is one search
\* request per page counted; the detail requests are issued for the records
\* of the search in their order, each record once, the loop moving on to
\* the next record whatever the fetch gave; once the call is over every
\* record of the search was fetched exactly once; and after a failed search
\* request no search request follows.
C21_NoRetries ==
    /\ [](requests = page_count)
    /\ [][pc' = "await" => requests' = requests + 1 /\ ~SearchFailed]_vars
    /\ [][pc' = "fetch" =>
            /\ pc = "details"
            /\ idx' = idx
            /\ request'.room_id = all_listings[idx + 1].v.room_id]_vars
    /\ [][pc = "fetched" => idx' = idx + 1 /\ pc' = "details"]_vars
    /\ []((pc \in {"returned", "raised"} /\ found # PyNone) =>
            \A i \in 1..Len(found.v) : DetailCalls(i) = 1)

\* the nextPageCursor of the response in hand
RepliedCursor == NextCursor(ResultsOf(reply.json))

NextScenario == scenario' # scenario

\* C23: when main goes on to the next scenario, however the scenario before
\* it ended, the search of the new scenario starts with its position
\* counter and its page counter at 0, no cursor and no record, and its first
\* request is counted as page 1; so whenever the first raw result of a
\* scenario is kept, its record holds position 1 and page 1. Across
\* scenarios only the list of main changes, and only by the records a
\* scenario returned being appended to it.
C23_SearchStartsFresh ==
    /\ [][NextScenario =>
            /\ global_position' = 0
            /\ page_count' = 0
            /\ cursor' = PyNone
            /\ all_listings' = <<>>]_vars
    /\ [][pc' = "await" /\ requests = 0 => page_count' = 1]_vars
    /\ []((all_listings # <<>> /\ 1 \notin dropped_at) =>
            /\ all_listings[1].v.position = PyInt(1)
            /\ all_listings[1].v.page = PyInt(1))
    /\ [][main_listings' # main_listings =>
            /\ pc = "returned"
            /\ main_listings' = main_listings \o output.v]_vars

\* the second scenario found a record at position 1 of page 1, after a first
\* scenario whose search went on to position 2 and returned records
C23_Witness ==
    /\ scenario = 2
    /\ pc = "details"
    /\ all_listings # <<>>
    /\ 1 \notin dropped_at
    /\ all_listings[1].v.position = PyInt(1)
    /\ all_listings[1].v.page = PyInt(1)
    /\ \E i \in 1..Len(main_listings) : main_listings[i].v.position.v >= 2

(***************************************************************************)
(* Properties of the amenity classification                                *)
(***************************************************************************)
\* the titles of the amenity items of a payload that count, in their order
AvailableTitles(payload) ==
    LET items == SelectSeq(AmenityItems(payload), AvailableAndTitled) IN
    [i \in 1..Len(items) |-> items[i].v.title]

\* how many times a title is in a list of titles
Occurrences(title, titles) ==
    Cardinality({i \in 1..Len(titles) : titles[i] = title})

\* two lists of the same titles, each as many times in one as in the other
SameMultiset(titles, others) ==
    /\ Len(titles) = Len(others)
    /\ \A i \in 1..Len(titles) :
           Occurrences(titles[i], titles) = Occurrences(titles[i], others)

\* C24 as claimed: a payload whose available amenity titles are those of the
\* payload extracted, as a multiset, in whatever order and categories, gives
\* the same amenities_count and the same value of every has_* flag.
C24_OrderIndependent ==
    Extracted =>
        \A other \in AmenityPayloads :
            (/\ SameMultiset(AvailableTitles(details), AvailableTitles(other))
             /\ ExtractDetails(other) # Raised) =>
                /\ ExtractDetails(other).v.amenities_count =
                       extracted.v.amenities_count
                /\ \A flag \in DOMAIN AmenityKeywords :
                       ExtractDetails(other).v[flag] = extracted.v[flag]

====
